---- MODULE Spec2Model ----
(***************************************************************************)
(* Model of the ledger synchronisation core of the Aura block explorer     *)
(* front end (frontend/explorer.js, class AuraExplorer): the fetchAPI      *)
(* cache, the pagination and filter state, the WebSocket live channel and  *)
(* the auto-refresh timer.                                                 *)
(*                                                                         *)
(* JavaScript runs one task at a time.  Every action below is one task     *)
(* (an event handler, a timer callback, the arrival of a response)         *)
(* together with the microtasks it starts: an `await` on a fetchAPI call   *)
(* that is answered from the cache resumes inside the same task.           *)
(*                                                                         *)
(* The second front end, the ping-pub App (ping-pub-explorer/src), is      *)
(* modelled beside it: App.onSearch, searchLedger and normalizeHash.       *)
(* Strings that the code inspects character by character are sequences of  *)
(* one-character strings.                                                  *)
(***************************************************************************)
EXTENDS Integers, Sequences, FiniteSets, TLC

VARIABLES
    now,             \* Date.now(), in milliseconds
    initPc,          \* position of init(): "new", "loading", "done"
    initWait,        \* loaders of loadInitialData() that have not settled
    cache,           \* this.cache: signature -> [data, timestamp]
    pagination,      \* this.pagination
    filters,         \* this.filters
    autoRefresh,     \* this.autoRefresh
    refreshInterval, \* this.refreshInterval (0 is null)
    intervals,       \* the interval timers of the page: id -> next due time
    wsUrlOk,         \* whether `new WebSocket(this.wsUrl)` is accepted by the browser
    sockets,         \* every WebSocket the client created: id -> state
    ws,              \* this.ws (0 is null)
    wsStatus,        \* what updateWSStatus last displayed
    reconnectTimers, \* pending setTimeout(initWebSocket) calls: due times
    sent,            \* frames handed to WebSocket.send: <<socket, channel>>
    inflight,        \* remote requests awaiting their response
    view,            \* what each table of the page shows
    ev,              \* the task that ran last and the fetchAPI calls it made
    puts,            \* history: the last cache.set of every signature
    announced,       \* history: time of the last push received on page 1
    run,             \* history: the clicks so far are next^n prev^m on one resource
    searchResult,    \* App: the searchResult state
    searchError,     \* App: the searchError state
    lookups,         \* App: searchLedger calls awaiting their fetchJson
    evApp,           \* App: the task that ran last
    overtaken,       \* history: responses rendered over the payload of a later request
    polling          \* App: the effects of usePolling, their ticks and timeouts

vars == <<now, initPc, initWait, cache, pagination, filters, autoRefresh,
          refreshInterval, intervals, wsUrlOk, sockets, ws, wsStatus, reconnectTimers,
          sent, inflight, view, ev, puts, announced, run,
          searchResult, searchError, lookups, evApp, overtaken, polling>>

----------------------------------------------------------------------------
(* Program constants *)

cacheTimeout == 5000

limit == 20

reconnectDelay == 5000

(* the {64} of the pattern in normalizeHash *)
HashLen == 64

refreshPeriod == 10000
\* App.tsx: POLL_INTERVAL
POLL_INTERVAL == 5000
\* App.tsx: fetchRecentBlocks(5, nextOverview.latestHeight)
recentCount == 5

(* Bounds of the model *)

MaxPage == 4

MaxInFlight == 8

MaxTime == 20000

MaxSockets == 3

MaxLookups == 2
\* blocks requests pending at once in the racing session
MaxRacing == 2
\* effects of usePolling mounted one after the other
MaxEffects == 2
\* invocations of the polling callback by one effect
MaxTicks == 3
\* the highest block height the node reports
MaxHeight == 7
\* the highest `count` passed to fetchRecentBlocks
MaxCount == 6

Null == "null"

TypeInputs == {"", "send"}

StatusInputs == {"", "success"}

ProposalInputs == {"", "passed"}

Resources == {"blocks", "txs", "proposals"}

Outcomes == {"ok", "http_error", "network_error", "decode_error"}

NoData == [sig |-> <<>>, asOf |-> -1]

----------------------------------------------------------------------------
(* this.cache, a Map *)

CacheHas(c, k) == k \in DOMAIN c

CacheSet(c, k, e) == [x \in (DOMAIN c) \cup {k} |-> IF x = k THEN e ELSE c[x]]

CacheDelete(c, k) == [x \in (DOMAIN c) \ {k} |-> c[x]]

(* `e.target.value || null` *)
OrNull(v) == IF v = "" THEN Null ELSE v

(* a string is truthy unless empty; null is falsy *)
Truthy(v) == v # Null /\ v # ""

(* the string a template literal builds from its pieces: the cache key as
   the Map compares it *)
RECURSIVE Text(_)
Text(pieces) == IF pieces = <<>> THEN "" ELSE Head(pieces) \o Text(Tail(pieces))

(* Query signatures: the endpoint string, as its sequence of pieces *)
Offset(page) == (page - 1) * limit

BlocksUrl(pg) ==
    <<"/api/blocks", "?limit=", ToString(pg.blocks.limit),
      "&offset=", ToString(Offset(pg.blocks.page))>>

(* the transactions URL without its status parameter *)
TxsUrlTypeOnly(pg, flt) ==
    <<"/api/transactions", "?limit=", ToString(pg.txs.limit),
      "&offset=", ToString(Offset(pg.txs.page))>>
    \o (IF Truthy(flt.txType) THEN <<"&type=", flt.txType>> ELSE <<>>)

TxsUrl(pg, flt) ==
    <<"/api/transactions", "?limit=", ToString(pg.txs.limit),
      "&offset=", ToString(Offset(pg.txs.page))>>
    \o (IF Truthy(flt.txType) THEN <<"&type=", flt.txType>> ELSE <<>>)
    \o (IF Truthy(flt.txStatus) THEN <<"&status=", flt.txStatus>> ELSE <<>>)

(* the proposals URL with the status filter of the transactions added *)
ProposalsUrlLeaking(pg, flt) ==
    <<"/api/governance/proposals", "?limit=", ToString(pg.proposals.limit),
      "&offset=", ToString(Offset(pg.proposals.page))>>
    \o (IF Truthy(flt.proposalStatus) THEN <<"&status=", flt.proposalStatus>> ELSE <<>>)
    \o (IF Truthy(flt.txStatus) THEN <<"&status=", flt.txStatus>> ELSE <<>>)

ProposalsUrl(pg, flt) ==
    <<"/api/governance/proposals", "?limit=", ToString(pg.proposals.limit),
      "&offset=", ToString(Offset(pg.proposals.page))>>
    \o (IF Truthy(flt.proposalStatus) THEN <<"&status=", flt.proposalStatus>> ELSE <<>>)

ValidatorsUrl == <<"/api/validators", "?sort=", "voting_power">>

StatsUrl == <<"/api/stats">>

PoolUrl == <<"/api/staking/pool">>

ParamsUrl == <<"/api/staking/params">>

----------------------------------------------------------------------------
(* fetchAPI *)

(* fetchAPI with an entry aged exactly the TTL still served *)
FetchHitInclusive(c, k, t) == CacheHas(c, k) /\ t - c[k].timestamp <= cacheTimeout

(* the cache check at the head of fetchAPI *)
FetchHit(c, k, t) == CacheHas(c, k) /\ t - c[k].timestamp < cacheTimeout

Request(res, key, page, origin) ==
    [res |-> res, key |-> key, page |-> page, origin |-> origin, issuedAt |-> now]

(* a render that keeps the table when it shows the payload of a later request *)
RenderNewest(v, res, page, data) ==
    IF res \in DOMAIN v /\ ~(v[res].status = "ok" /\ v[res].data.asOf > data.asOf)
    THEN [v EXCEPT ![res] = [status |-> "ok", page |-> page, data |-> data]]
    ELSE v

(* render<Resource>(data) and the page label *)
Render(v, res, page, data) ==
    IF res \in DOMAIN v
    THEN [v EXCEPT ![res] = [status |-> "ok", page |-> page, data |-> data]]
    ELSE v

(* a loader whose catch block only logs *)
RenderErrorSilent(v, res) == v

(* renderError(table, 'Failed to load ...'): the table only, not the page label *)
RenderError(v, res) ==
    IF res \in {"blocks", "txs", "proposals", "validators"}
    THEN [v EXCEPT ![res] = [status |-> "failed", page |-> @.page, data |-> NoData]]
    ELSE v

(* The state a task works on: st.log lists the fetchAPI calls it made *)
Start == [cache |-> cache, inflight |-> inflight, view |-> view, log |-> <<>>]

(* a loader whose fetchAPI joins a pending request for the same signature *)
LoadShared(st, res, key, page, origin) ==
    IF FetchHit(st.cache, key, now)
    THEN [st EXCEPT !.view = Render(@, res, page, st.cache[key].data),
                    !.log = Append(@, [res |-> res, key |-> key, hit |-> TRUE,
                                       data |-> st.cache[key].data])]
    ELSE [st EXCEPT !.inflight = IF \E i \in 1..Len(@) : @[i].key = key
                                 THEN @
                                 ELSE Append(@, Request(res, key, page, origin)),
                    !.log = Append(@, [res |-> res, key |-> key, hit |-> FALSE,
                                       data |-> NoData])]

(* one loader call: fetchAPI(key), then render on a hit, or suspend on the fetch *)
Load(st, res, key, page, origin) ==
    IF FetchHit(st.cache, key, now)
    THEN [st EXCEPT !.view = Render(@, res, page, st.cache[key].data),
                    !.log = Append(@, [res |-> res, key |-> key, hit |-> TRUE,
                                       data |-> st.cache[key].data])]
    ELSE [st EXCEPT !.inflight = Append(@, Request(res, key, page, origin)),
                    !.log = Append(@, [res |-> res, key |-> key, hit |-> FALSE,
                                       data |-> NoData])]

loadBlocks(st, pg, origin) ==
    Load(st, "blocks", BlocksUrl(pg), pg.blocks.page, origin)

loadTransactions(st, pg, flt, origin) ==
    Load(st, "txs", TxsUrl(pg, flt), pg.txs.page, origin)

loadProposals(st, pg, flt, origin) ==
    Load(st, "proposals", ProposalsUrl(pg, flt), pg.proposals.page, origin)

loadValidators(st, origin) ==
    Load(st, "validators", ValidatorsUrl, 0, origin)

updateQuickStats(st, origin) ==
    Load(st, "stats", StatsUrl, 0, origin)

loadStakingPool(st, origin) ==
    Load(Load(st, "pool", PoolUrl, 0, origin), "params", ParamsUrl, 0, origin)

loadInitialData(st, pg, flt) ==
    updateQuickStats(
      loadStakingPool(
        loadProposals(
          loadValidators(
            loadTransactions(
              loadBlocks(st, pg, "init"), pg, flt, "init"), "init"),
          pg, flt, "init"), "init"), "init")

(* the end of a task: what it leaves in the cache, in flight and on the page *)
Finish(st, op, arg) ==
    /\ Len(st.inflight) <= MaxInFlight
    /\ cache' = st.cache
    /\ inflight' = st.inflight
    /\ view' = st.view
    /\ ev' = [op |-> op, arg |-> arg, loads |-> st.log]

----------------------------------------------------------------------------
(* The auto-refresh timer *)

(* startAutoRefresh without its `if (this.refreshInterval) return` *)
startAutoRefreshAgain(h, ivs) ==
    LET id == CHOOSE i \in 1..(Cardinality(DOMAIN ivs) + 1) : i \notin DOMAIN ivs
    IN [refreshInterval |-> id,
        intervals |-> [x \in (DOMAIN ivs) \cup {id} |->
                         IF x = id THEN now + refreshPeriod ELSE ivs[x]]]

(* startAutoRefresh: [refreshInterval, intervals] afterwards *)
startAutoRefresh(h, ivs) ==
    IF h # 0
    THEN [refreshInterval |-> h, intervals |-> ivs]
    ELSE LET id == CHOOSE i \in 1..(Cardinality(DOMAIN ivs) + 1) : i \notin DOMAIN ivs
         IN [refreshInterval |-> id,
             intervals |-> [x \in (DOMAIN ivs) \cup {id} |->
                              IF x = id THEN now + refreshPeriod ELSE ivs[x]]]

(* stopAutoRefresh without its clearInterval *)
stopAutoRefreshKeeping(h, ivs) == [refreshInterval |-> 0, intervals |-> ivs]

stopAutoRefresh(h, ivs) ==
    IF h # 0
    THEN [refreshInterval |-> 0, intervals |-> [x \in (DOMAIN ivs) \ {h} |-> ivs[x]]]
    ELSE [refreshInterval |-> h, intervals |-> ivs]

----------------------------------------------------------------------------
(* The live channel *)

(* initWebSocket: `new WebSocket` returns a connecting socket, or throws
   (a URL the browser rejects, an insecure ws: URL on a secure page) and
   the catch block runs *)
initWebSocket ==
    IF wsUrlOk
    THEN /\ sockets' = Append(sockets, "connecting")
         /\ ws' = Len(sockets) + 1
         /\ wsStatus' = wsStatus
    ELSE /\ sockets' = sockets
         /\ ws' = ws
         /\ wsStatus' = "error"

----------------------------------------------------------------------------
Init ==
    /\ now = 0
    /\ initPc = "new"
    /\ initWait = {}
    /\ cache = <<>>
    /\ pagination = [blocks |-> [page |-> 1, limit |-> limit],
                     txs |-> [page |-> 1, limit |-> limit],
                     proposals |-> [page |-> 1, limit |-> limit]]
    /\ filters = [txType |-> Null, txStatus |-> Null, proposalStatus |-> Null]
    /\ autoRefresh = TRUE
    /\ refreshInterval = 0
    /\ intervals = <<>>
    /\ wsUrlOk \in BOOLEAN
    /\ sockets = <<>>
    /\ ws = 0
    /\ wsStatus = "connecting"
    /\ reconnectTimers = <<>>
    /\ sent = <<>>
    /\ inflight = <<>>
    /\ view = [r \in {"blocks", "txs", "proposals", "validators", "stats"} |->
                 [status |-> "none", page |-> 0, data |-> NoData]]
    /\ ev = [op |-> "constructor", arg |-> "", loads |-> <<>>]
    /\ puts = <<>>
    /\ announced = [blocks |-> -1, txs |-> -1]
    /\ run = [res |-> "", n |-> 0, m |-> 0]
    /\ searchResult = [type |-> "null", height |-> 0, hash |-> <<>>]
    /\ searchError = Null
    /\ lookups = <<>>
    /\ evApp = [op |-> "mount", query |-> <<>>, kind |-> "none", url |-> <<>>,
                outcome |-> ""]
    /\ overtaken = [lead |-> [res |-> "", key |-> <<>>, origin |-> "", asOf |-> -1],
                    pairs |-> {}]
    /\ polling = [isCancelled |-> <<>>, interval |-> <<>>, invoked |-> <<>>,
                  awaiting |-> <<>>, timeouts |-> <<>>, overview |-> -1, heights |-> <<>>,
                  last |-> [op |-> "none", effect |-> 0, outcome |-> ""]]

----------------------------------------------------------------------------
(* History variables *)

RunOff == [res |-> "off", n |-> 0, m |-> 0]

RunNext(res) ==
    IF run.res \in {"", res} /\ run.m = 0
    THEN [res |-> res, n |-> run.n + 1, m |-> 0]
    ELSE RunOff

RunPrev(res) ==
    IF run.res = res /\ run.m < run.n
    THEN [run EXCEPT !.m = @ + 1]
    ELSE RunOff

(* overtaken.lead is the last successful response that arrived while an
   earlier request of its resource was pending; when the response to such a
   request r is rendered over the payload of the lead, overtaken.pairs
   keeps <<resource, origin of the lead, origin of r>> *)
Overtake(o, r, rest, outcome) ==
    IF outcome # "ok" \/ r.res \notin DOMAIN view
    THEN o
    ELSE [lead |-> IF \E j \in 1..Len(rest) :
                         rest[j].res = r.res /\ rest[j].issuedAt < r.issuedAt
                   THEN [res |-> r.res, key |-> r.key, origin |-> r.origin,
                         asOf |-> r.issuedAt]
                   ELSE o.lead,
          pairs |-> IF /\ o.lead.res = r.res
                       /\ o.lead.asOf > r.issuedAt
                       /\ view[r.res].status = "ok"
                       /\ view[r.res].data = [sig |-> o.lead.key, asOf |-> o.lead.asOf]
                    THEN o.pairs \cup {<<r.res, o.lead.origin, r.origin>>}
                    ELSE o.pairs]

(* a push announced at time a[r] is served once the table of r shows data
   of a request issued at or after a[r] *)
Settle(a, v) ==
    [r \in {"blocks", "txs"} |->
       IF a[r] >= 0 /\ v[r].status = "ok" /\ v[r].data.asOf >= a[r] THEN -1 ELSE a[r]]

chanVars == <<wsUrlOk, sockets, ws, wsStatus, reconnectTimers, sent>>

timerVars == <<autoRefresh, refreshInterval, intervals>>

initVars == <<initPc, initWait>>

appVars == <<searchResult, searchError, lookups, evApp>>

explorerVars == <<now, initPc, initWait, cache, pagination, filters, autoRefresh,
                  refreshInterval, intervals, wsUrlOk, sockets, ws, wsStatus,
                  reconnectTimers, sent, inflight, view, ev, puts, announced, run,
                  overtaken>>

----------------------------------------------------------------------------
(* init(): attachEventListeners, initWebSocket, the synchronous part of
   loadInitialData; init() then waits for the six loaders *)
init ==
    /\ initPc = "new"
    /\ initWebSocket
    /\ LET st == loadInitialData(Start, pagination, filters)
           wait == {IF l.res \in {"pool", "params"} THEN "staking" ELSE l.res :
                      l \in {st.log[i] : i \in {j \in 1..Len(st.log) : ~st.log[j].hit}}}
           timer == startAutoRefresh(refreshInterval, intervals)
       IN /\ Finish(st, "init", "")
          /\ initWait' = wait
          /\ IF wait = {}
             THEN /\ initPc' = "done"
                  /\ refreshInterval' = timer.refreshInterval
                  /\ intervals' = timer.intervals
             ELSE /\ initPc' = "loading"
                  /\ UNCHANGED <<refreshInterval, intervals>>
    /\ UNCHANGED <<now, pagination, filters, autoRefresh, wsUrlOk, reconnectTimers,
                   sent, puts, announced, run>>
    /\ UNCHANGED <<appVars, overtaken, polling>>

(* Pagination *)

(* prevBlocksPage without its `page > 1` test *)
prevBlocksPageUnguarded ==
    /\ initPc # "new"
    /\ LET pg == [pagination EXCEPT !.blocks.page = @ - 1]
       IN /\ pagination' = pg
          /\ Finish(loadBlocks(Start, pg, "user"), "prevBlocksPage", "blocks")
    /\ announced' = [announced EXCEPT !.blocks = -1]
    /\ run' = RunPrev("blocks")
    /\ UNCHANGED <<now, filters, puts>>
    /\ UNCHANGED <<chanVars, timerVars, initVars, appVars, overtaken, polling>>

prevBlocksPage ==
    /\ initPc # "new"
    /\ IF pagination.blocks.page > 1
       THEN LET pg == [pagination EXCEPT !.blocks.page = @ - 1]
            IN /\ pagination' = pg
               /\ Finish(loadBlocks(Start, pg, "user"), "prevBlocksPage", "blocks")
               /\ announced' = [announced EXCEPT !.blocks = -1]
       ELSE /\ Finish(Start, "prevBlocksPage", "blocks")
            /\ UNCHANGED <<pagination, announced>>
    /\ run' = RunPrev("blocks")
    /\ UNCHANGED <<now, filters, puts>>
    /\ UNCHANGED <<chanVars, timerVars, initVars, appVars, overtaken, polling>>

nextBlocksPage ==
    /\ initPc # "new"
    /\ pagination.blocks.page < MaxPage
    /\ LET pg == [pagination EXCEPT !.blocks.page = @ + 1]
       IN /\ pagination' = pg
          /\ Finish(loadBlocks(Start, pg, "user"), "nextBlocksPage", "blocks")
    /\ announced' = [announced EXCEPT !.blocks = -1]
    /\ run' = RunNext("blocks")
    /\ UNCHANGED <<now, filters, puts>>
    /\ UNCHANGED <<chanVars, timerVars, initVars, appVars, overtaken, polling>>

(* prevTxsPage without its `page > 1` test *)
prevTxsPageUnguarded ==
    /\ initPc # "new"
    /\ LET pg == [pagination EXCEPT !.txs.page = @ - 1]
       IN /\ pagination' = pg
          /\ Finish(loadTransactions(Start, pg, filters, "user"), "prevTxsPage", "txs")
    /\ announced' = [announced EXCEPT !.txs = -1]
    /\ run' = RunPrev("txs")
    /\ UNCHANGED <<now, filters, puts>>
    /\ UNCHANGED <<chanVars, timerVars, initVars, appVars, overtaken, polling>>

prevTxsPage ==
    /\ initPc # "new"
    /\ IF pagination.txs.page > 1
       THEN LET pg == [pagination EXCEPT !.txs.page = @ - 1]
            IN /\ pagination' = pg
               /\ Finish(loadTransactions(Start, pg, filters, "user"), "prevTxsPage", "txs")
               /\ announced' = [announced EXCEPT !.txs = -1]
       ELSE /\ Finish(Start, "prevTxsPage", "txs")
            /\ UNCHANGED <<pagination, announced>>
    /\ run' = RunPrev("txs")
    /\ UNCHANGED <<now, filters, puts>>
    /\ UNCHANGED <<chanVars, timerVars, initVars, appVars, overtaken, polling>>

(* nextTxsPage that also resets the type filter *)
nextTxsPageClearing ==
    /\ initPc # "new"
    /\ pagination.txs.page < MaxPage
    /\ LET pg == [pagination EXCEPT !.txs.page = @ + 1]
           flt == [filters EXCEPT !.txType = Null]
       IN /\ pagination' = pg
          /\ filters' = flt
          /\ Finish(loadTransactions(Start, pg, flt, "user"), "nextTxsPage", "txs")
    /\ announced' = [announced EXCEPT !.txs = -1]
    /\ run' = RunNext("txs")
    /\ UNCHANGED <<now, puts>>
    /\ UNCHANGED <<chanVars, timerVars, initVars, appVars, overtaken, polling>>

nextTxsPage ==
    /\ initPc # "new"
    /\ pagination.txs.page < MaxPage
    /\ LET pg == [pagination EXCEPT !.txs.page = @ + 1]
       IN /\ pagination' = pg
          /\ Finish(loadTransactions(Start, pg, filters, "user"), "nextTxsPage", "txs")
    /\ announced' = [announced EXCEPT !.txs = -1]
    /\ run' = RunNext("txs")
    /\ UNCHANGED <<now, filters, puts>>
    /\ UNCHANGED <<chanVars, timerVars, initVars, appVars, overtaken, polling>>

prevProposalsPage ==
    /\ initPc # "new"
    /\ IF pagination.proposals.page > 1
       THEN LET pg == [pagination EXCEPT !.proposals.page = @ - 1]
            IN /\ pagination' = pg
               /\ Finish(loadProposals(Start, pg, filters, "user"),
                         "prevProposalsPage", "proposals")
       ELSE /\ Finish(Start, "prevProposalsPage", "proposals")
            /\ UNCHANGED pagination
    /\ run' = RunPrev("proposals")
    /\ UNCHANGED <<now, filters, puts, announced>>
    /\ UNCHANGED <<chanVars, timerVars, initVars, appVars, overtaken, polling>>

(* nextProposalsPage that loads without moving the page *)
nextProposalsPageStuck ==
    /\ initPc # "new"
    /\ pagination.proposals.page < MaxPage
    /\ Finish(loadProposals(Start, pagination, filters, "user"),
              "nextProposalsPage", "proposals")
    /\ run' = RunNext("proposals")
    /\ UNCHANGED <<now, pagination, filters, puts, announced>>
    /\ UNCHANGED <<chanVars, timerVars, initVars, appVars, overtaken, polling>>

nextProposalsPage ==
    /\ initPc # "new"
    /\ pagination.proposals.page < MaxPage
    /\ LET pg == [pagination EXCEPT !.proposals.page = @ + 1]
       IN /\ pagination' = pg
          /\ Finish(loadProposals(Start, pg, filters, "user"),
                    "nextProposalsPage", "proposals")
    /\ run' = RunNext("proposals")
    /\ UNCHANGED <<now, filters, puts, announced>>
    /\ UNCHANGED <<chanVars, timerVars, initVars, appVars, overtaken, polling>>

(* Filters: the change handlers of attachEventListeners *)

txTypeFilter(value) ==
    /\ initPc # "new"
    /\ LET flt == [filters EXCEPT !.txType = OrNull(value)]
       IN /\ filters' = flt
          /\ Finish(loadTransactions(Start, pagination, flt, "user"), "txTypeFilter", "txs")
    /\ announced' = [announced EXCEPT !.txs = -1]
    /\ run' = RunOff
    /\ UNCHANGED <<now, pagination, puts>>
    /\ UNCHANGED <<chanVars, timerVars, initVars, appVars, overtaken, polling>>

txStatusFilter(value) ==
    /\ initPc # "new"
    /\ LET flt == [filters EXCEPT !.txStatus = OrNull(value)]
       IN /\ filters' = flt
          /\ Finish(loadTransactions(Start, pagination, flt, "user"), "txStatusFilter", "txs")
    /\ announced' = [announced EXCEPT !.txs = -1]
    /\ run' = RunOff
    /\ UNCHANGED <<now, pagination, puts>>
    /\ UNCHANGED <<chanVars, timerVars, initVars, appVars, overtaken, polling>>

(* a proposal filter that sends every listing back to its first page *)
proposalStatusFilterAll(value) ==
    /\ initPc # "new"
    /\ LET flt == [filters EXCEPT !.proposalStatus = OrNull(value)]
           pg == [r \in Resources |-> [pagination[r] EXCEPT !.page = 1]]
       IN /\ filters' = flt
          /\ pagination' = pg
          /\ Finish(loadProposals(Start, pg, flt, "user"),
                    "proposalStatusFilter", "proposals")
    /\ run' = RunOff
    /\ UNCHANGED <<now, puts, announced>>
    /\ UNCHANGED <<chanVars, timerVars, initVars, appVars, overtaken, polling>>

proposalStatusFilter(value) ==
    /\ initPc # "new"
    /\ LET flt == [filters EXCEPT !.proposalStatus = OrNull(value)]
           pg == [pagination EXCEPT !.proposals.page = 1]
       IN /\ filters' = flt
          /\ pagination' = pg
          /\ Finish(loadProposals(Start, pg, flt, "user"),
                    "proposalStatusFilter", "proposals")
    /\ run' = RunOff
    /\ UNCHANGED <<now, puts, announced>>
    /\ UNCHANGED <<chanVars, timerVars, initVars, appVars, overtaken, polling>>

(* the refresh buttons *)

refreshBlocks ==
    /\ initPc # "new"
    /\ Finish(loadBlocks(Start, pagination, "user"), "refreshBlocks", "blocks")
    /\ announced' = Settle(announced, view')
    /\ UNCHANGED <<now, pagination, filters, puts, run>>
    /\ UNCHANGED <<chanVars, timerVars, initVars, appVars, overtaken, polling>>

refreshProposals ==
    /\ initPc # "new"
    /\ Finish(loadProposals(Start, pagination, filters, "user"),
              "refreshProposals", "proposals")
    /\ UNCHANGED <<now, pagination, filters, puts, announced, run>>
    /\ UNCHANGED <<chanVars, timerVars, initVars, appVars, overtaken, polling>>

(* The Auto-refresh toggle *)
toggleAutoRefresh(checked) ==
    /\ initPc # "new"
    /\ autoRefresh' = checked
    /\ LET timer == IF checked THEN startAutoRefresh(refreshInterval, intervals)
                               ELSE stopAutoRefresh(refreshInterval, intervals)
       IN /\ refreshInterval' = timer.refreshInterval
          /\ intervals' = timer.intervals
    /\ Finish(Start, "toggleAutoRefresh", "")
    /\ UNCHANGED <<now, pagination, filters, puts, announced, run>>
    /\ UNCHANGED <<chanVars, initVars, appVars, overtaken, polling>>

(* the callback of setInterval without its test of the blocks page *)
tickEveryPage(id) ==
    /\ id \in DOMAIN intervals
    /\ now >= intervals[id]
    /\ intervals' = [intervals EXCEPT ![id] = now + refreshPeriod]
    /\ LET a == loadBlocks(Start, pagination, "tick")
           b == IF pagination.txs.page = 1
                THEN loadTransactions(a, pagination, filters, "tick") ELSE a
       IN Finish(updateQuickStats(b, "tick"), "tick", "")
    /\ announced' = Settle(announced, view')
    /\ UNCHANGED <<now, pagination, filters, autoRefresh, refreshInterval, puts, run>>
    /\ UNCHANGED <<chanVars, initVars, appVars, overtaken, polling>>

(* a callback that returns at once while a request of an earlier tick is pending *)
tickIdle(id) ==
    /\ id \in DOMAIN intervals
    /\ now >= intervals[id]
    /\ intervals' = [intervals EXCEPT ![id] = now + refreshPeriod]
    /\ LET busy == \E i \in 1..Len(inflight) : inflight[i].origin = "tick"
           a == IF pagination.blocks.page = 1 /\ ~busy
                THEN loadBlocks(Start, pagination, "tick") ELSE Start
           b == IF pagination.txs.page = 1 /\ ~busy
                THEN loadTransactions(a, pagination, filters, "tick") ELSE a
       IN Finish(IF busy THEN b ELSE updateQuickStats(b, "tick"), "tick", "")
    /\ announced' = Settle(announced, view')
    /\ UNCHANGED <<now, pagination, filters, autoRefresh, refreshInterval, puts, run>>
    /\ UNCHANGED <<chanVars, initVars, appVars, overtaken, polling>>

(* the callback of setInterval in startAutoRefresh *)
tick(id) ==
    /\ id \in DOMAIN intervals
    /\ now >= intervals[id]
    /\ intervals' = [intervals EXCEPT ![id] = now + refreshPeriod]
    /\ LET a == IF pagination.blocks.page = 1
                THEN loadBlocks(Start, pagination, "tick") ELSE Start
           b == IF pagination.txs.page = 1
                THEN loadTransactions(a, pagination, filters, "tick") ELSE a
       IN Finish(updateQuickStats(b, "tick"), "tick", "")
    /\ announced' = Settle(announced, view')
    /\ UNCHANGED <<now, pagination, filters, autoRefresh, refreshInterval, puts, run>>
    /\ UNCHANGED <<chanVars, initVars, appVars, overtaken, polling>>

----------------------------------------------------------------------------
(* Push messages *)

Messages == {"new_block", "new_transaction", "subscribed", "unknown", "malformed"}

handleNewBlock(st) ==
    LET a == [st EXCEPT !.cache = CacheDelete(@, <<"blocks">>)]
        b == IF pagination.blocks.page = 1 THEN loadBlocks(a, pagination, "push") ELSE a
    IN updateQuickStats(b, "push")

(* handleNewTransaction with the statistics refresh of handleNewBlock *)
handleNewTransactionStats(st) ==
    LET a == [st EXCEPT !.cache = CacheDelete(@, <<"transactions">>)]
        b == IF pagination.txs.page = 1
             THEN loadTransactions(a, pagination, filters, "push") ELSE a
    IN updateQuickStats(b, "push")

handleNewTransaction(st) ==
    LET a == [st EXCEPT !.cache = CacheDelete(@, <<"transactions">>)]
    IN IF pagination.txs.page = 1
       THEN loadTransactions(a, pagination, filters, "push") ELSE a

(* handleWSMessage whose default case reloads like new_block *)
handleWSMessageDefaulting(st, type) ==
    CASE type = "new_transaction" -> handleNewTransaction(st)
      [] type = "subscribed" -> st
      [] OTHER -> handleNewBlock(st)

(* ws.onmessage: JSON.parse throws on a malformed frame, before handleWSMessage *)
handleWSMessage(st, type) ==
    CASE type = "new_block" -> handleNewBlock(st)
      [] type = "new_transaction" -> handleNewTransaction(st)
      [] OTHER -> st

socketMessage(s, type) ==
    /\ s \in 1..Len(sockets)
    /\ sockets[s] = "open"
    /\ Finish(handleWSMessage(Start, type), "message", type)
    /\ announced' =
         Settle([announced EXCEPT
                   !.blocks = IF type = "new_block" /\ pagination.blocks.page = 1
                              THEN now ELSE @,
                   !.txs = IF type = "new_transaction" /\ pagination.txs.page = 1
                           THEN now ELSE @], view')
    /\ UNCHANGED <<now, pagination, filters, puts, run>>
    /\ UNCHANGED <<chanVars, timerVars, initVars, appVars, overtaken, polling>>

(* ws.onopen without its second send *)
socketOpenOnce(s) ==
    /\ s \in 1..Len(sockets)
    /\ sockets[s] = "connecting"
    /\ sockets' = [sockets EXCEPT ![s] = "open"]
    /\ wsStatus' = "connected"
    /\ sent' = IF sockets'[ws] = "open"
               THEN Append(sent, [socket |-> ws, channel |-> "blocks"])
               ELSE sent
    /\ Finish(Start, "open", "")
    /\ UNCHANGED <<now, pagination, filters, puts, announced, run, wsUrlOk, ws,
                   reconnectTimers>>
    /\ UNCHANGED <<timerVars, initVars, appVars, overtaken, polling>>

(* ws.onopen: this.ws.send throws while this.ws is still connecting and
   drops the frame once it is closed *)
socketOpen(s) ==
    /\ s \in 1..Len(sockets)
    /\ sockets[s] = "connecting"
    /\ sockets' = [sockets EXCEPT ![s] = "open"]
    /\ wsStatus' = "connected"
    /\ sent' = IF sockets'[ws] = "open"
               THEN sent \o <<[socket |-> ws, channel |-> "blocks"],
                              [socket |-> ws, channel |-> "transactions"]>>
               ELSE sent
    /\ Finish(Start, "open", "")
    /\ UNCHANGED <<now, pagination, filters, puts, announced, run, wsUrlOk, ws,
                   reconnectTimers>>
    /\ UNCHANGED <<timerVars, initVars, appVars, overtaken, polling>>

(* ws.onclose *)
socketClose(s) ==
    /\ s \in 1..Len(sockets)
    /\ sockets[s] \in {"connecting", "open"}
    /\ sockets' = [sockets EXCEPT ![s] = "closed"]
    /\ wsStatus' = "disconnected"
    /\ reconnectTimers' = Append(reconnectTimers, now + reconnectDelay)
    /\ Finish(Start, "close", "")
    /\ UNCHANGED <<now, pagination, filters, puts, announced, run, wsUrlOk, ws, sent>>
    /\ UNCHANGED <<timerVars, initVars, appVars, overtaken, polling>>

(* a transport error whose onerror handler schedules a reconnection as well *)
socketErrorRetrying(s) ==
    /\ s \in 1..Len(sockets)
    /\ sockets[s] \in {"connecting", "open"}
    /\ sockets' = [sockets EXCEPT ![s] = "closed"]
    /\ wsStatus' = "disconnected"
    /\ reconnectTimers' = reconnectTimers \o <<now + reconnectDelay, now + reconnectDelay>>
    /\ Finish(Start, "error", "")
    /\ UNCHANGED <<now, pagination, filters, puts, announced, run, wsUrlOk, ws, sent>>
    /\ UNCHANGED <<timerVars, initVars, appVars, overtaken, polling>>

(* a transport error: the browser fires the error event and then the close
   event of the socket in one task (ws.onerror, then ws.onclose) *)
socketError(s) ==
    /\ s \in 1..Len(sockets)
    /\ sockets[s] \in {"connecting", "open"}
    /\ sockets' = [sockets EXCEPT ![s] = "closed"]
    /\ wsStatus' = "disconnected"
    /\ reconnectTimers' = Append(reconnectTimers, now + reconnectDelay)
    /\ Finish(Start, "error", "")
    /\ UNCHANGED <<now, pagination, filters, puts, announced, run, wsUrlOk, ws, sent>>
    /\ UNCHANGED <<timerVars, initVars, appVars, overtaken, polling>>

(* the callback of setTimeout in ws.onclose *)
reconnect(i) ==
    /\ i \in 1..Len(reconnectTimers)
    /\ now >= reconnectTimers[i]
    /\ Len(sockets) < MaxSockets
    /\ reconnectTimers' = SubSeq(reconnectTimers, 1, i - 1)
                          \o SubSeq(reconnectTimers, i + 1, Len(reconnectTimers))
    /\ initWebSocket
    /\ Finish(Start, "reconnect", "")
    /\ UNCHANGED <<now, pagination, filters, puts, announced, run, wsUrlOk, sent>>
    /\ UNCHANGED <<timerVars, initVars, appVars, overtaken, polling>>

----------------------------------------------------------------------------
(* fetchAPI storing what it received before its test of response.ok *)
respondStoring(i, outcome) ==
    /\ i \in 1..Len(inflight)
    /\ LET r == inflight[i]
           rest == SubSeq(inflight, 1, i - 1) \o SubSeq(inflight, i + 1, Len(inflight))
           data == [sig |-> r.key, asOf |-> r.issuedAt]
           entry == [data |-> data, timestamp |-> now]
           loader == IF r.res \in {"pool", "params"} THEN "staking" ELSE r.res
           sibling == \E j \in 1..Len(rest) :
                         rest[j].origin = "init" /\ rest[j].res \in {"pool", "params"}
           settled == r.origin = "init"
                      /\ (loader = "staking" => (outcome # "ok" \/ ~sibling))
           wait == IF settled THEN initWait \ {loader} ELSE initWait
           timer == startAutoRefresh(refreshInterval, intervals)
       IN /\ inflight' = rest
          /\ cache' = CacheSet(cache, r.key, entry)
          /\ puts' = CacheSet(puts, r.key, entry)
          /\ IF outcome = "ok"
             THEN view' = Render(view, r.res, r.page, data)
             ELSE view' = RenderError(view, r.res)
          /\ initWait' = wait
          /\ IF initPc = "loading" /\ wait = {}
             THEN /\ initPc' = "done"
                  /\ refreshInterval' = timer.refreshInterval
                  /\ intervals' = timer.intervals
             ELSE UNCHANGED <<initPc, refreshInterval, intervals>>
    /\ ev' = [op |-> "response", arg |-> outcome, loads |-> <<>>]
    /\ announced' = Settle(announced, view')
    /\ overtaken' = Overtake(overtaken, inflight[i],
                              SubSeq(inflight, 1, i - 1)
                                \o SubSeq(inflight, i + 1, Len(inflight)), outcome)
    /\ UNCHANGED <<now, pagination, filters, autoRefresh, run>>
    /\ UNCHANGED <<chanVars, appVars, polling>>

(* loaders that rethrow: a failed initial load rejects loadInitialData, and
   init() ends before its startAutoRefresh call *)
respondRejecting(i, outcome) ==
    /\ i \in 1..Len(inflight)
    /\ LET r == inflight[i]
           rest == SubSeq(inflight, 1, i - 1) \o SubSeq(inflight, i + 1, Len(inflight))
           data == [sig |-> r.key, asOf |-> r.issuedAt]
           entry == [data |-> data, timestamp |-> now]
           loader == IF r.res \in {"pool", "params"} THEN "staking" ELSE r.res
           sibling == \E j \in 1..Len(rest) :
                         rest[j].origin = "init" /\ rest[j].res \in {"pool", "params"}
           settled == r.origin = "init"
                      /\ (loader = "staking" => (outcome # "ok" \/ ~sibling))
           wait == IF settled THEN initWait \ {loader} ELSE initWait
           timer == startAutoRefresh(refreshInterval, intervals)
       IN /\ inflight' = rest
          /\ IF outcome = "ok"
             THEN /\ cache' = CacheSet(cache, r.key, entry)
                  /\ puts' = CacheSet(puts, r.key, entry)
                  /\ view' = Render(view, r.res, r.page, data)
             ELSE /\ view' = RenderError(view, r.res)
                  /\ UNCHANGED <<cache, puts>>
          /\ initWait' = wait
          /\ IF initPc = "loading" /\ settled /\ outcome # "ok"
             THEN /\ initPc' = "done"
                  /\ UNCHANGED <<refreshInterval, intervals>>
             ELSE IF initPc = "loading" /\ wait = {}
                  THEN /\ initPc' = "done"
                       /\ refreshInterval' = timer.refreshInterval
                       /\ intervals' = timer.intervals
                  ELSE UNCHANGED <<initPc, refreshInterval, intervals>>
    /\ ev' = [op |-> "response", arg |-> outcome, loads |-> <<>>]
    /\ announced' = Settle(announced, view')
    /\ overtaken' = Overtake(overtaken, inflight[i],
                              SubSeq(inflight, 1, i - 1)
                                \o SubSeq(inflight, i + 1, Len(inflight)), outcome)
    /\ UNCHANGED <<now, pagination, filters, autoRefresh, run>>
    /\ UNCHANGED <<chanVars, appVars, polling>>

(* The remote server answers request i: the rest of fetchAPI and of the loader *)
respond(i, outcome) ==
    /\ i \in 1..Len(inflight)
    /\ LET r == inflight[i]
           rest == SubSeq(inflight, 1, i - 1) \o SubSeq(inflight, i + 1, Len(inflight))
           data == [sig |-> r.key, asOf |-> r.issuedAt]
           entry == [data |-> data, timestamp |-> now]
           loader == IF r.res \in {"pool", "params"} THEN "staking" ELSE r.res
           sibling == \E j \in 1..Len(rest) :
                         rest[j].origin = "init" /\ rest[j].res \in {"pool", "params"}
           settled == r.origin = "init"
                      /\ (loader = "staking" => (outcome # "ok" \/ ~sibling))
           wait == IF settled THEN initWait \ {loader} ELSE initWait
           timer == startAutoRefresh(refreshInterval, intervals)
       IN /\ inflight' = rest
          /\ IF outcome = "ok"
             THEN /\ cache' = CacheSet(cache, r.key, entry)
                  /\ puts' = CacheSet(puts, r.key, entry)
                  /\ view' = Render(view, r.res, r.page, data)
             ELSE /\ view' = RenderError(view, r.res)
                  /\ UNCHANGED <<cache, puts>>
          /\ initWait' = wait
          /\ IF initPc = "loading" /\ wait = {}
             THEN /\ initPc' = "done"
                  /\ refreshInterval' = timer.refreshInterval
                  /\ intervals' = timer.intervals
             ELSE UNCHANGED <<initPc, refreshInterval, intervals>>
    /\ ev' = [op |-> "response", arg |-> outcome, loads |-> <<>>]
    /\ announced' = Settle(announced, view')
    /\ overtaken' = Overtake(overtaken, inflight[i],
                              SubSeq(inflight, 1, i - 1)
                                \o SubSeq(inflight, i + 1, Len(inflight)), outcome)
    /\ UNCHANGED <<now, pagination, filters, autoRefresh, run>>
    /\ UNCHANGED <<chanVars, appVars, polling>>

(* d milliseconds pass *)
advance(d) ==
    /\ now + d <= MaxTime
    /\ now' = now + d
    /\ ev' = [op |-> "advance", arg |-> "", loads |-> <<>>]
    /\ UNCHANGED <<cache, inflight, view, pagination, filters, puts, announced, run>>
    /\ UNCHANGED <<chanVars, timerVars, initVars, appVars, overtaken, polling>>

----------------------------------------------------------------------------
(* The ping-pub App.  Strings *)

Digits == {"0", "1", "2", "3", "4", "5", "6", "7", "8", "9"}

HexLetters == {"a", "b", "c", "d", "e", "f", "A", "B", "C", "D", "E", "F"}

(* the letters that occur in the inputs, in their two cases *)
LowerCase == <<"a", "b", "c", "d", "e", "f", "g", "r", "u", "x">>

UpperCase == <<"A", "B", "C", "D", "E", "F", "G", "R", "U", "X">>

CaseOf(letters, c) == CHOOSE i \in 1..Len(letters) : letters[i] = c

toUpperCase(s) ==
    [i \in 1..Len(s) |->
       IF \E j \in 1..Len(LowerCase) : LowerCase[j] = s[i]
       THEN UpperCase[CaseOf(LowerCase, s[i])] ELSE s[i]]

toLowerCase(s) ==
    [i \in 1..Len(s) |->
       IF \E j \in 1..Len(UpperCase) : UpperCase[j] = s[i]
       THEN LowerCase[CaseOf(UpperCase, s[i])] ELSE s[i]]

startsWith(s, prefix) == Len(s) >= Len(prefix) /\ SubSeq(s, 1, Len(prefix)) = prefix

slice(s, n) == SubSeq(s, n + 1, Len(s))

RECURSIVE trimStart(_)
trimStart(s) == IF s # <<>> /\ Head(s) = " " THEN trimStart(Tail(s)) ELSE s

RECURSIVE trimEnd(_)
trimEnd(s) ==
    IF s # <<>> /\ s[Len(s)] = " " THEN trimEnd(SubSeq(s, 1, Len(s) - 1)) ELSE s

trim(s) == trimEnd(trimStart(s))

(* /^\d+$/ *)
IsDecimal(s) == s # <<>> /\ \A i \in 1..Len(s) : s[i] \in Digits

(* /^[0-9a-f]{64}$/i *)
IsHex64(s) == Len(s) = HashLen /\ \A i \in 1..Len(s) : s[i] \in Digits \cup HexLetters

(* Number(query) of a string of decimal digits *)
RECURSIVE Number(_)
Number(s) ==
    IF s = <<>> THEN 0
    ELSE 10 * Number(SubSeq(s, 1, Len(s) - 1))
         + (CHOOSE d \in 0..9 : ToString(d) = s[Len(s)])

(* normalizeHash returning the digits in the case they were typed in *)
normalizeHashAsTyped(value) ==
    LET hex == IF startsWith(toLowerCase(value), <<"0", "x">>)
               THEN slice(value, 2) ELSE value
    IN IF ~IsHex64(hex) THEN <<>> ELSE <<"0", "x">> \o hex

(* normalizeHash; its null is the empty string here, which `!normalized`
   treats alike *)
normalizeHash(value) ==
    LET hex == IF startsWith(toLowerCase(value), <<"0", "x">>)
               THEN slice(value, 2) ELSE value
    IN IF ~IsHex64(hex) THEN <<>> ELSE <<"0", "x">> \o toUpperCase(hex)

(* searchLedger up to its fetchJson: the lookup it makes, or none when it
   returns null at once *)
searchLedger(query) ==
    IF IsDecimal(query)
    THEN [kind |-> "block", height |-> Number(query),
          url |-> <<"/rpc/block", "?height=", ToString(Number(query))>>]
    ELSE LET normalized == normalizeHash(query)
         IN IF normalized = <<>>
            THEN [kind |-> "none", height |-> 0, url |-> <<>>]
            ELSE [kind |-> "tx", height |-> 0,
                  url |-> <<"/rpc/tx", "?hash=">> \o normalized]

(* the null of searchResult *)
NoResult == [type |-> "null", height |-> 0, hash |-> <<>>]

NotFound == "No block or transaction found."

(* what the user types into the search box *)
Hex(c) == [i \in 1..HashLen |-> c]

SearchInputs ==
    {<<>>, <<" ", " ">>,
     <<"4", "2">>, <<" ", "0", "0", "7", " ">>,
     Hex("a"), Hex("B"), <<"0", "x">> \o Hex("c"), <<"0", "X">> \o Hex("9"),
     <<"0", "x">> \o Hex("A"),
     Tail(Hex("e")), Hex("d") \o <<"d">>, Tail(Hex("f")) \o <<"g">>,
     <<"a", "u", "r", "a", "1">>, <<"0", "x", "1", "2">>}

(* the heights the node reports for a transaction *)
ServerHeights == {1, 2}

(* App.onSearch up to the await of fetchJson, or to its end when
   searchLedger makes no lookup *)
onSearch(value) ==
    /\ Len(lookups) < MaxLookups
    /\ LET query == trim(value)
           call == searchLedger(query)
       IN /\ searchResult' = NoResult
          /\ IF query = <<>>
             THEN /\ searchError' = Null
                  /\ lookups' = lookups
                  /\ evApp' = [op |-> "onSearch", query |-> query, kind |-> "empty",
                               url |-> <<>>, outcome |-> ""]
             ELSE IF call.kind = "none"
             THEN /\ searchError' = NotFound
                  /\ lookups' = lookups
                  /\ evApp' = [op |-> "onSearch", query |-> query, kind |-> "none",
                               url |-> <<>>, outcome |-> "null"]
             ELSE /\ searchError' = Null
                  /\ lookups' = Append(lookups, [query |-> query, kind |-> call.kind,
                                                 height |-> call.height, url |-> call.url])
                  /\ evApp' = [op |-> "onSearch", query |-> query, kind |-> call.kind,
                               url |-> call.url, outcome |-> ""]
    /\ UNCHANGED <<explorerVars, polling>>

(* the node answers lookup i: the rest of fetchJson, of searchLedger and of
   App.onSearch *)
lookupDone(i, outcome, h) ==
    /\ i \in 1..Len(lookups)
    /\ LET l == lookups[i]
           result == IF l.kind = "block"
                     THEN [type |-> "block", height |-> l.height, hash |-> l.url]
                     ELSE [type |-> "transaction", height |-> h, hash |-> l.url]
       IN /\ lookups' = SubSeq(lookups, 1, i - 1) \o SubSeq(lookups, i + 1, Len(lookups))
          /\ IF outcome = "ok"
             THEN /\ searchResult' = result
                  /\ searchError' = searchError
             ELSE /\ searchResult' = searchResult
                  /\ searchError' = IF l.kind = "block" THEN outcome ELSE NotFound
          /\ evApp' = [op |-> "lookupDone", query |-> l.query, kind |-> l.kind,
                       url |-> l.url, outcome |-> outcome]
    /\ UNCHANGED <<explorerVars, polling>>

----------------------------------------------------------------------------
(* The search box of AuraExplorer *)

(* the characters encodeURIComponent leaves as they are, among those of
   the inputs; it writes a space as %20 *)
RECURSIVE encodeURIComponent(_)
encodeURIComponent(s) ==
    IF s = <<>> THEN <<>>
    ELSE (IF Head(s) = " " THEN <<"%", "2", "0">> ELSE <<Head(s)>>)
         \o encodeURIComponent(Tail(s))

SearchUrl(query) == <<"/api/search", "?q=">> \o encodeURIComponent(query)

(* the value of #searchInput when search() runs *)
QueryInputs ==
    {<<>>, <<" ">>, <<"4", "2">>, <<" ", "4", "2", " ">>, <<"a", " ", "b">>,
     <<"a", "u", "r", "a", "1">>}

(* search() without the trim() of what the input holds *)
searchUntrimmed(value) ==
    /\ initPc # "new"
    /\ LET query == value
       IN IF query = <<>>
          THEN Finish(Start, "search", Text(value))
          ELSE Finish(Load(Start, "search", SearchUrl(query), 0, "user"),
                      "search", Text(value))
    /\ UNCHANGED <<now, pagination, filters, puts, announced, run>>
    /\ UNCHANGED <<chanVars, timerVars, initVars, appVars, overtaken, polling>>

(* search(): on a cache hit the result is shown in the same task *)
search(value) ==
    /\ initPc # "new"
    /\ LET query == trim(value)
       IN IF query = <<>>
          THEN Finish(Start, "search", Text(value))
          ELSE Finish(Load(Start, "search", SearchUrl(query), 0, "user"),
                      "search", Text(value))
    /\ UNCHANGED <<now, pagination, filters, puts, announced, run>>
    /\ UNCHANGED <<chanVars, timerVars, initVars, appVars, overtaken, polling>>

----------------------------------------------------------------------------
(* The ping-pub App.  usePolling(refreshOverview, POLL_INTERVAL) *)

Max(a, b) == IF a >= b THEN a ELSE b

(* fetchRecentBlocks without the Math.max that keeps a height at 1 or more *)
fetchRecentBlocksUnclamped(count, latestHeight, statusHeight) ==
    LET height == IF latestHeight = 0 THEN statusHeight ELSE latestHeight
    IN [index \in 1..count |-> height - (index - 1)]

(* the heights fetchRecentBlocks requests, in the order of its Promise.all;
   statusHeight is what /rpc/status reports when latestHeight is missing or 0 *)
fetchRecentBlocks(count, latestHeight, statusHeight) ==
    LET height == IF latestHeight = 0 THEN statusHeight ELSE latestHeight
    IN [index \in 1..count |-> Max(height - (index - 1), 1)]

Intervals == {POLL_INTERVAL, 2 * POLL_INTERVAL}

ChainHeights == 0..MaxHeight

(* what the node reports as its latest height: none yet, fewer blocks than
   the App asks for, and more *)
NodeHeights == {0, recentCount - 2, MaxHeight}

Without(q, i) == SubSeq(q, 1, i - 1) \o SubSeq(q, i + 1, Len(q))

(* the second effect of usePolling runs: on mount, or on a change of the
   interval once the cleanup of the effect before it has run; it calls tick() *)
usePolling(interval) ==
    /\ Len(polling.isCancelled) < MaxEffects
    /\ \A e \in 1..Len(polling.isCancelled) : polling.isCancelled[e]
    /\ LET e == Len(polling.isCancelled) + 1
       IN polling' = [polling EXCEPT !.isCancelled = Append(@, FALSE),
                                     !.interval = Append(@, interval),
                                     !.invoked = Append(@, 1),
                                     !.awaiting = Append(@, e),
                                     !.last = [op |-> "mount", effect |-> e, outcome |-> ""]]
    /\ UNCHANGED <<explorerVars, appVars>>

(* the cleanup the effect returned *)
usePollingCleanup ==
    /\ polling.isCancelled # <<>>
    /\ LET e == Len(polling.isCancelled)
       IN /\ ~polling.isCancelled[e]
          /\ polling' = [polling EXCEPT !.isCancelled[e] = TRUE,
                                        !.last = [op |-> "cleanup", effect |-> e,
                                                  outcome |-> ""]]
    /\ UNCHANGED <<explorerVars, appVars>>

(* a tick whose catch block returns: a callback that throws ends the polling *)
pollSettleStopping(i, outcome, h, statusHeight) ==
    /\ i \in 1..Len(polling.awaiting)
    /\ LET e == polling.awaiting[i]
       IN polling' = [polling EXCEPT
             !.awaiting = Without(@, i),
             !.timeouts = IF polling.isCancelled[e] \/ outcome # "ok"
                          THEN @
                          ELSE Append(@, [effect |-> e, due |-> now + polling.interval[e]]),
             !.overview = IF outcome = "ok" THEN h ELSE @,
             !.heights = IF outcome = "ok"
                         THEN fetchRecentBlocks(recentCount, h, statusHeight) ELSE @,
             !.last = [op |-> "settle", effect |-> e, outcome |-> outcome]]
    /\ UNCHANGED <<explorerVars, appVars>>

(* the callback of the tick at position i settles: refreshOverview has set
   the overview and asked for the recent blocks, or it has thrown; the rest
   of tick() *)
pollSettle(i, outcome, h, statusHeight) ==
    /\ i \in 1..Len(polling.awaiting)
    /\ LET e == polling.awaiting[i]
       IN polling' = [polling EXCEPT
             !.awaiting = Without(@, i),
             !.timeouts = IF polling.isCancelled[e]
                          THEN @
                          ELSE Append(@, [effect |-> e, due |-> now + polling.interval[e]]),
             !.overview = IF outcome = "ok" THEN h ELSE @,
             !.heights = IF outcome = "ok"
                         THEN fetchRecentBlocks(recentCount, h, statusHeight) ELSE @,
             !.last = [op |-> "settle", effect |-> e, outcome |-> outcome]]
    /\ UNCHANGED <<explorerVars, appVars>>

(* the callback of setTimeout(tick, interval) up to its await *)
pollTick(i) ==
    /\ i \in 1..Len(polling.timeouts)
    /\ LET t == polling.timeouts[i]
       IN /\ now >= t.due
          /\ polling.invoked[t.effect] < MaxTicks
          /\ polling' = [polling EXCEPT
                !.timeouts = Without(@, i),
                !.invoked[t.effect] = @ + 1,
                !.awaiting = Append(@, t.effect),
                !.last = [op |-> "tick", effect |-> t.effect, outcome |-> ""]]
    /\ UNCHANGED <<explorerVars, appVars>>

----------------------------------------------------------------------------
(* Specifications.  Each one is the program with one kind of environment. *)

Failures == Outcomes \ {"ok"}

Quiet == inflight = <<>>

(* A user who pages and filters, waiting for the answer to each click, and
   a server that answers the first load of the three listings at most and
   fails afterwards *)
NextView ==
    \/ init
    \/ \E i \in 1..Len(inflight), o \in Outcomes :
          (o = "ok" => inflight[i].origin = "init" /\ inflight[i].res \in Resources) /\ respond(i, o)
    \/ Quiet /\ prevBlocksPage
    \/ Quiet /\ nextBlocksPage
    \/ Quiet /\ prevTxsPage
    \/ Quiet /\ nextTxsPage
    \/ Quiet /\ prevProposalsPage
    \/ Quiet /\ nextProposalsPage
    \/ Quiet /\ \E v \in TypeInputs : txTypeFilter(v)
    \/ Quiet /\ \E v \in StatusInputs : txStatusFilter(v)
    \/ Quiet /\ \E v \in ProposalInputs : proposalStatusFilter(v)

SpecView == Init /\ [][NextView]_vars

(* The same user against a server that answers in the order asked *)
NextSignature ==
    \/ init
    \/ \E o \in {"ok", "network_error"} :
          /\ inflight # <<>>
          /\ o = "ok" => inflight[1].origin = "init" /\ inflight[1].res \in Resources
          /\ respond(1, o)
    \/ Quiet /\ prevBlocksPage
    \/ Quiet /\ nextBlocksPage
    \/ Quiet /\ prevTxsPage
    \/ Quiet /\ nextTxsPage
    \/ Quiet /\ prevProposalsPage
    \/ Quiet /\ nextProposalsPage
    \/ Quiet /\ \E v \in TypeInputs : txTypeFilter(v)
    \/ Quiet /\ \E v \in StatusInputs : txStatusFilter(v)
    \/ Quiet /\ \E v \in ProposalInputs : proposalStatusFilter(v)

SpecSignature == Init /\ [][NextSignature]_vars

(* The session against a server whose endpoints are failing: every click,
   the poll timer and the push messages of a socket that stays open, each
   task starting once the requests of the one before it are answered *)
NextSession ==
    \/ init
    \/ \E i \in 1..Len(inflight), o \in Failures : respond(i, o)
    \/ now < refreshPeriod /\ advance(reconnectDelay)
    \/ Quiet /\ prevBlocksPage
    \/ Quiet /\ nextBlocksPage
    \/ Quiet /\ prevTxsPage
    \/ Quiet /\ nextTxsPage
    \/ Quiet /\ prevProposalsPage
    \/ Quiet /\ nextProposalsPage
    \/ Quiet /\ \E v \in TypeInputs : txTypeFilter(v)
    \/ Quiet /\ \E v \in StatusInputs : txStatusFilter(v)
    \/ Quiet /\ \E v \in ProposalInputs : proposalStatusFilter(v)
    \/ Quiet /\ refreshBlocks
    \/ Quiet /\ refreshProposals
    \/ Quiet /\ \E c \in BOOLEAN : toggleAutoRefresh(c)
    \/ Quiet /\ \E id \in DOMAIN intervals : tick(id)
    \/ Quiet /\ \E s \in 1..Len(sockets), m \in Messages : socketMessage(s, m)
    \/ \E s \in 1..Len(sockets) : socketOpen(s)

SpecSession == Init /\ [][NextSession]_vars

Served == {"blocks", "txs", "stats"}

(* The cache over time, up to the TTL: pages one and two of the blocks
   listing are viewed and refreshed and pushes arrive on an open socket;
   the server answers in the order asked, and serves or fails the listings
   and the statistics *)
NextCache ==
    \/ init
    \/ \E o \in Outcomes :
          /\ inflight # <<>>
          /\ o = "ok" => inflight[1].res \in Served
          /\ respond(1, o)
    \/ now < cacheTimeout /\ advance(2500)
    \/ Quiet /\ prevBlocksPage
    \/ Quiet /\ pagination.blocks.page = 1 /\ nextBlocksPage
    \/ Quiet /\ refreshBlocks
    \/ Quiet /\ \E s \in 1..Len(sockets), m \in Messages : socketMessage(s, m)
    \/ \E s \in 1..Len(sockets) : socketOpen(s)

SpecCache == Init /\ [][NextCache]_vars

(* The same session with a server that answers every request successfully,
   the blocks and the transactions viewed on their pages one and two *)
NextPush ==
    \/ init
    \/ inflight # <<>> /\ respond(1, "ok")
    \/ now < cacheTimeout /\ advance(2500)
    \/ Quiet /\ refreshBlocks
    \/ Quiet /\ prevBlocksPage
    \/ Quiet /\ pagination.blocks.page = 1 /\ nextBlocksPage
    \/ Quiet /\ prevTxsPage
    \/ Quiet /\ pagination.txs.page = 1 /\ nextTxsPage
    \/ Quiet /\ \E c \in BOOLEAN : toggleAutoRefresh(c)
    \/ Quiet /\ \E s \in 1..Len(sockets), m \in Messages : socketMessage(s, m)
    \/ \E s \in 1..Len(sockets) : socketOpen(s)

SpecPush == Init /\ [][NextPush]_vars

(* The live channel: sockets open, fail and close, and the reconnection
   timers fire, while the initial requests go unanswered or fail *)
NextChannel ==
    \/ init
    \/ \E i \in 1..Len(inflight), o \in Failures : respond(i, o)
    \/ now < refreshPeriod /\ advance(reconnectDelay)
    \/ \E s \in 1..Len(sockets) : socketOpen(s)
    \/ \E s \in 1..Len(sockets) : socketClose(s)
    \/ \E s \in 1..Len(sockets) : socketError(s)
    \/ \E i \in 1..Len(reconnectTimers) : reconnect(i)
    \/ Quiet /\ \E s \in 1..Len(sockets), m \in Messages : socketMessage(s, m)

SpecChannel == Init /\ [][NextChannel]_vars

(* Searches typed one after the other within the TTL, each once the one
   before it is answered; the server answers the searches or fails them,
   and fails the initial loads *)
NextSearch ==
    \/ init
    \/ \E o \in Outcomes :
          /\ inflight # <<>>
          /\ o = "ok" => inflight[1].res = "search"
          /\ respond(1, o)
    \/ now < cacheTimeout /\ advance(2500)
    \/ Quiet /\ \E v \in QueryInputs : search(v)

SpecSearch == Init /\ [][NextSearch]_vars

(* The ping-pub App: searches typed one after the other or overlapping,
   and a node that answers or fails each lookup *)
NextLedger ==
    \/ \E v \in SearchInputs : onSearch(v)
    \/ \E i \in 1..Len(lookups), o \in Outcomes, h \in ServerHeights : lookupDone(i, o, h)

SpecLedger == Init /\ [][NextLedger]_vars

(* what is typed into the search box of the App: nothing, blanks, a height *)
BoxInputs == {<<>>, <<" ", " ">>, <<"4", "2">>}

(* The two search boxes side by side: searches of AuraExplorer typed one
   after the other and answered or failed in the order asked, and searches
   of the App, which may overlap *)
NextQuery ==
    \/ init
    \/ \E o \in {"ok", "network_error"} :
          /\ inflight # <<>>
          /\ o = "ok" => inflight[1].res = "search"
          /\ respond(1, o)
    \/ Quiet /\ \E v \in QueryInputs : search(v)
    \/ \E v \in BoxInputs : onSearch(v)
    \/ \E i \in 1..Len(lookups), o \in {"ok", "network_error"} :
          lookupDone(i, o, 1)

SpecQuery == Init /\ [][NextQuery]_vars

(* usePolling over two periods: the effect is mounted, cleaned up and
   mounted again; the node answers the callback or fails it *)
NextPolling ==
    \/ \E interval \in Intervals : usePolling(interval)
    \/ usePollingCleanup
    \/ \E i \in 1..Len(polling.awaiting), o \in {"ok", "network_error"},
          h \in NodeHeights, h2 \in NodeHeights :
          (h # 0 => h2 = h) /\ pollSettle(i, o, h, h2)
    \/ \E i \in 1..Len(polling.timeouts) : pollTick(i)
    \/ now < 2 * POLL_INTERVAL /\ advance(POLL_INTERVAL)

SpecPolling == Init /\ [][NextPolling]_vars

(* no request but blocks requests is pending, and fewer than MaxRacing of those *)
Calm ==
    /\ \A i \in 1..Len(inflight) : inflight[i].res = "blocks"
    /\ Len(inflight) < MaxRacing

(* Racing loads of the blocks listing: the user pages forward, twice at
   most, without waiting, the poll timer fires and pushes arrive while blocks requests are pending,
   and the server answers the blocks requests in any order, or never; it
   fails the other requests in the order asked.  The Auto-refresh toggle
   can be clicked at any time, also while init() awaits its loaders *)
NextRace ==
    \/ init
    \/ \E i \in 1..Len(inflight) :
          /\ inflight[i].res # "blocks"
          /\ \A j \in 1..(i - 1) : inflight[j].res = "blocks"
          /\ respond(i, "network_error")
    \/ \E i \in 1..Len(inflight) : inflight[i].res = "blocks" /\ respond(i, "ok")
    \/ advance(refreshPeriod)
    \/ Calm /\ pagination.blocks.page < 3 /\ nextBlocksPage
    \/ Calm /\ \E id \in DOMAIN intervals : tick(id)
    \/ Calm /\ \E s \in 1..Len(sockets) : socketMessage(s, "new_block")
    \/ \E s \in 1..Len(sockets) : socketOpen(s)
    \/ \E c \in BOOLEAN : toggleAutoRefresh(c)

SpecRace == Init /\ [][NextRace]_vars

----------------------------------------------------------------------------
(* Properties *)

UrlOf(res, pg, flt) ==
    CASE res = "blocks" -> BlocksUrl(pg)
      [] res = "txs" -> TxsUrl(pg, flt)
      [] res = "proposals" -> ProposalsUrl(pg, flt)

PrevOpOf == [blocks |-> "prevBlocksPage", txs |-> "prevTxsPage",
             proposals |-> "prevProposalsPage"]

NextOpOf == [blocks |-> "nextBlocksPage", txs |-> "nextTxsPage",
             proposals |-> "nextProposalsPage"]

LoadsOf(res) == {i \in 1..Len(ev.loads) : ev.loads[i].res = res}

RemoteLoadsOf(res) == {i \in LoadsOf(res) : ~ev.loads[i].hit}

(* a payload was stored under signature k less than the TTL ago *)
StoredWithinTTL(k) == k \in DOMAIN puts /\ now - puts[k].timestamp < cacheTimeout

(* C1: a fetchAPI call is answered from the cache, with the payload stored
   last and without a remote request, if and only if a payload was stored
   under its signature less than 5000 ms before the call; otherwise it
   issues a remote request *)
C1Theorem ==
    \A i \in 1..Len(ev.loads) :
       LET f == ev.loads[i]
       IN /\ f.hit <=> StoredWithinTTL(f.key)
          /\ f.hit => f.data = puts[f.key].data
          /\ ~f.hit => \E j \in 1..Len(inflight) :
                          inflight[j].key = f.key /\ inflight[j].issuedAt = now

(* one task that is served an entry aged 2500 ms from the cache and that
   fetches remotely past an entry aged exactly 5000 ms *)
C1Witness ==
    \E i, j \in 1..Len(ev.loads) :
       /\ ev.loads[i].hit
       /\ now - puts[ev.loads[i].key].timestamp = 2500
       /\ ~ev.loads[j].hit
       /\ ev.loads[j].key \in DOMAIN cache
       /\ now - cache[ev.loads[j].key].timestamp = cacheTimeout

(* C2: once a new_block message is handled the cache holds no entry of the
   blocks endpoint, and once a new_transaction message is handled it holds
   no entry of the transactions endpoint *)
C2Claim ==
    /\ ev.op = "message" /\ ev.arg = "new_block"
         => \A k \in DOMAIN cache : k[1] # "/api/blocks"
    /\ ev.op = "message" /\ ev.arg = "new_transaction"
         => \A k \in DOMAIN cache : k[1] # "/api/transactions"

(* C3: a new_block message on page 1 of blocks makes exactly one remote
   request for blocks and one for the statistics, whatever the cache holds;
   on any other page it loads no blocks *)
C3Claim ==
    ev.op = "message" /\ ev.arg = "new_block" =>
       IF pagination.blocks.page = 1
       THEN Cardinality(RemoteLoadsOf("blocks")) = 1
            /\ Cardinality(RemoteLoadsOf("stats")) = 1
       ELSE LoadsOf("blocks") = {}

(* C4: with auto-refresh off, a push received on page 1 that the table does
   not reflect yet has a request of that resource in flight, issued at or
   after the push: when every request is answered successfully the table
   comes to show data at least as recent as the push *)
C4Claim ==
    \A r \in {"blocks", "txs"} :
       announced[r] >= 0 /\ refreshInterval = 0 =>
          \E i \in 1..Len(inflight) :
             inflight[i].res = r /\ inflight[i].issuedAt >= announced[r]

(* C5: after the change handler of the type filter, of the status filter or
   of the proposal status filter, the page of the filtered resource is 1 *)
C5Claim ==
    /\ ev.op \in {"txTypeFilter", "txStatusFilter"} => pagination.txs.page = 1
    /\ ev.op = "proposalStatusFilter" => pagination.proposals.page = 1

(* C6: prevPage on page 1 changes no page, loads nothing and requests
   nothing; on a page p > 1 it sets the page to p - 1 and makes exactly one
   load, of that resource at its new page *)
C6Theorem ==
    [][\A res \in Resources :
         ev'.op = PrevOpOf[res] =>
            IF pagination[res].page = 1
            THEN /\ pagination' = pagination
                 /\ ev'.loads = <<>>
                 /\ inflight' = inflight
                 /\ view' = view
            ELSE /\ pagination'[res].page = pagination[res].page - 1
                 /\ Len(ev'.loads) = 1
                 /\ ev'.loads[1].res = res
                 /\ ev'.loads[1].key = UrlOf(res, pagination', filters')]_vars

(* prevProposalsPage has run on page 1 *)
C6Witness ==
    /\ ev.op = "prevProposalsPage"
    /\ pagination.proposals.page = 1
    /\ ev.loads = <<>>

(* C7: every page is an integer >= 1 and every offset, of the pages and of
   the requests sent, is >= 0 *)
C7Theorem ==
    /\ \A res \in Resources :
          /\ pagination[res].page \in Nat
          /\ pagination[res].page >= 1
          /\ Offset(pagination[res].page) >= 0
    /\ \A i \in 1..Len(inflight) :
          inflight[i].res \in Resources => Offset(inflight[i].page) >= 0

(* prevTxsPage has run on page 1 after a poll tick has fired *)
C7Witness ==
    /\ ev.op = "prevTxsPage"
    /\ pagination.txs.page = 1
    /\ now >= refreshPeriod
    /\ \E id \in DOMAIN intervals : intervals[id] > refreshPeriod

(* C8: nextPage adds exactly 1 to the page and makes one load of the
   resource at its new page; after n nextPage and then m <= n prevPage from
   the start the page is 1 + n - m *)
C8Theorem ==
    [][/\ \A res \in Resources :
            ev'.op = NextOpOf[res] =>
               /\ pagination'[res].page = pagination[res].page + 1
               /\ Len(ev'.loads) = 1
               /\ ev'.loads[1].res = res
               /\ ev'.loads[1].key = UrlOf(res, pagination', filters')
       /\ run'.res \in Resources =>
            pagination'[run'.res].page = 1 + run'.n - run'.m]_vars

(* three nextBlocksPage and one prevBlocksPage: page 3 *)
C8Witness ==
    /\ run = [res |-> "blocks", n |-> 3, m |-> 1]
    /\ pagination.blocks.page = 3

(* C9: nextPage and prevPage leave txType, txStatus and proposalStatus as
   they were *)
C9Theorem ==
    [][ev'.op \in {PrevOpOf[r] : r \in Resources} \cup {NextOpOf[r] : r \in Resources}
         => filters' = filters]_vars

(* nextTxsPage has run with both transaction filters set *)
C9Witness ==
    /\ ev.op = "nextTxsPage"
    /\ filters.txType = "send"
    /\ filters.txStatus = "success"
    /\ pagination.txs.page = 2

(* C10: whenever the channel shows Errored a reconnection attempt is
   pending *)
C10Claim == wsStatus = "error" => reconnectTimers # <<>>

(* C11: every task that loses the connection, the close or the error of a
   socket or an initWebSocket whose constructor throws, leaves exactly one
   more reconnection timer pending than there was (the timer that fired,
   if the task is its callback, not counted) *)
C11Claim ==
    [][(\/ ev'.op \in {"close", "error"}
        \/ ev'.op \in {"init", "reconnect"} /\ wsStatus' = "error")
         => Len(reconnectTimers')
              = Len(reconnectTimers) - (IF ev'.op = "reconnect" THEN 1 ELSE 0) + 1]_vars

(* the frames sent on socket s, in order *)
SentOn(s) == SelectSeq(sent, LAMBDA f : f.socket = s)

Subscriptions(s) == <<[socket |-> s, channel |-> "blocks"],
                      [socket |-> s, channel |-> "transactions"]>>

(* C12: the open event of a socket, the first or a later one, sends on
   that socket the subscription to blocks and then the subscription to
   transactions and nothing else; no other task sends a frame; and a
   message is handled only on a socket both subscriptions were sent on *)
C12Theorem ==
    [][/\ ev'.op = "open" =>
            /\ sockets[ws] = "connecting"
            /\ sockets'[ws] = "open"
            /\ wsStatus' = "connected"
            /\ SentOn(ws) = <<>>
            /\ sent' = sent \o Subscriptions(ws)
       /\ ev'.op # "open" => sent' = sent
       /\ ev'.op = "message" =>
            \E s \in 1..Len(sockets) :
               sockets[s] = "open" /\ SentOn(s) = Subscriptions(s)]_vars

(* a message has been handled on the second socket, after a reconnection *)
C12Witness ==
    /\ ev.op = "message"
    /\ ws = 2
    /\ sockets = <<"closed", "open">>
    /\ sent = Subscriptions(1) \o Subscriptions(2)

(* C13: a poll tick loads the blocks listing once if the blocks page is 1
   and not at all otherwise, the transactions listing once if the
   transactions page is 1 and not at all otherwise, the statistics once in
   every case, and nothing else: never the proposals *)
C13Theorem ==
    ev.op = "tick" =>
       /\ Cardinality(LoadsOf("blocks")) = (IF pagination.blocks.page = 1 THEN 1 ELSE 0)
       /\ Cardinality(LoadsOf("txs")) = (IF pagination.txs.page = 1 THEN 1 ELSE 0)
       /\ Cardinality(LoadsOf("stats")) = 1
       /\ LoadsOf("proposals") = {}
       /\ \A i \in 1..Len(ev.loads) :
             /\ ev.loads[i].res \in {"blocks", "txs", "stats"}
             /\ ev.loads[i].res \in Resources =>
                  ev.loads[i].key = UrlOf(ev.loads[i].res, pagination, filters)

(* a tick with the blocks on page 2, the transactions on page 1 and the
   proposals on page 2 *)
C13Witness ==
    /\ ev.op = "tick"
    /\ pagination.blocks.page = 2
    /\ pagination.txs.page = 1
    /\ pagination.proposals.page = 2
    /\ Len(ev.loads) = 2

(* the timers of setInterval that are running are the one refreshInterval
   holds, if it holds one *)
OneTimer ==
    /\ Cardinality(DOMAIN intervals) <= 1
    /\ DOMAIN intervals = (IF refreshInterval = 0 THEN {} ELSE {refreshInterval})

(* C14: at most one poll timer runs at any time and refreshInterval is its
   handle; switching auto-refresh on while a timer runs leaves the handle
   and the timer as they are, switching it on with none creates exactly
   one, and switching it off clears the timer and nulls the handle *)
C14Theorem ==
    [][/\ OneTimer
       /\ OneTimer'
       /\ ev'.op = "toggleAutoRefresh" =>
            IF autoRefresh'
            THEN IF refreshInterval # 0
                 THEN refreshInterval' = refreshInterval /\ intervals' = intervals
                 ELSE /\ refreshInterval' # 0
                      /\ DOMAIN intervals' = {refreshInterval'}
                      /\ intervals'[refreshInterval'] = now + refreshPeriod
            ELSE refreshInterval' = 0 /\ intervals' = <<>>]_vars

(* auto-refresh was switched on while the timer started 5000 ms earlier
   was running: the timer is still due at its old time *)
C14Witness ==
    /\ ev.op = "toggleAutoRefresh"
    /\ autoRefresh
    /\ refreshInterval # 0
    /\ now = 5000
    /\ intervals[refreshInterval] = refreshPeriod

(* the task that has just run called startAutoRefresh *)
StartCalled ==
    \/ ev'.op = "toggleAutoRefresh" /\ autoRefresh'
    \/ ev'.op \in {"init", "response"} /\ initPc # "done" /\ initPc' = "done"

(* the task that has just run called stopAutoRefresh *)
StopCalled == ev'.op = "toggleAutoRefresh" /\ ~autoRefresh'

(* C15: stopAutoRefresh leaves no timer and a null handle, the handle
   stays null until a task calls startAutoRefresh, and the tick body runs
   only while the handle is set, for the timer it names: no tick between a
   stop and the next start *)
C15Theorem ==
    [][/\ StopCalled => refreshInterval' = 0 /\ intervals' = <<>>
       /\ refreshInterval = 0 /\ refreshInterval' # 0 => StartCalled
       /\ ev'.op = "tick" =>
            /\ refreshInterval # 0
            /\ refreshInterval' = refreshInterval
            /\ intervals[refreshInterval] <= now
            /\ intervals'[refreshInterval] = now + refreshPeriod]_vars

(* auto-refresh was switched off after init() had started the timer, and
   the time at which that timer was due has come *)
C15Witness ==
    /\ initPc = "done"
    /\ ~autoRefresh
    /\ refreshInterval = 0
    /\ intervals = <<>>
    /\ now >= refreshPeriod
    /\ ev.op = "advance"

(* a query that is 64 hexadecimal characters after an optional 0x *)
HashPart(query) ==
    IF startsWith(query, <<"0", "x">>) \/ startsWith(query, <<"0", "X">>)
    THEN slice(query, 2) ELSE query

(* C16: onSearch of a query of decimal digits looks up the block of that
   height; otherwise a query that is 64 hexadecimal characters after an
   optional 0x looks up the transaction of the hash 0x and the digits in
   upper case; any other non-empty query makes an address lookup *)
C16Claim ==
    evApp.op = "onSearch" /\ evApp.query # <<>> =>
       /\ lookups # <<>>
       /\ lookups[Len(lookups)].query = evApp.query
       /\ IF IsDecimal(evApp.query)
          THEN /\ evApp.kind = "block"
               /\ evApp.url = <<"/rpc/block", "?height=", ToString(Number(evApp.query))>>
          ELSE IF IsHex64(HashPart(evApp.query))
          THEN /\ evApp.kind = "tx"
               /\ evApp.url = <<"/rpc/tx", "?hash=", "0", "x">>
                                \o toUpperCase(HashPart(evApp.query))
          ELSE evApp.kind = "address"

(* C17: a lookup whose server call fails, by a transport error, a
   non-success status or an unreadable body, leaves searchError set to the
   error of the call and not to the message of no match *)
C17Claim ==
    evApp.op = "lookupDone" /\ evApp.outcome # "ok" =>
       searchError = evApp.outcome /\ searchError # NotFound

(* C18: every search() with a query issues its own remote lookup, and the
   cache never holds an entry of the search endpoint *)
C18Claim ==
    /\ ev.op = "search" => \A i \in 1..Len(ev.loads) : ~ev.loads[i].hit
    /\ \A k \in DOMAIN cache : k[1] # "/api/search"

(* C19: when a request is answered successfully the cache gets, under the
   signature of the request, the payload received and the time, nothing
   else in it changes, and the loader shows that payload; when the request
   fails or its body cannot be parsed the cache stays exactly as it was and
   the loader is given the error *)
C19Theorem ==
    [][ev'.op = "response" =>
         \E i \in 1..Len(inflight) :
            LET r == inflight[i]
            IN /\ inflight' = SubSeq(inflight, 1, i - 1)
                               \o SubSeq(inflight, i + 1, Len(inflight))
               /\ IF ev'.arg = "ok"
                  THEN /\ DOMAIN cache' = DOMAIN cache \cup {r.key}
                       /\ cache'[r.key] = [data |-> [sig |-> r.key, asOf |-> r.issuedAt],
                                           timestamp |-> now]
                       /\ \A k \in DOMAIN cache : k # r.key => cache'[k] = cache[k]
                       /\ r.res \in DOMAIN view =>
                            /\ view'[r.res].status = "ok"
                            /\ view'[r.res].data = cache'[r.key].data
                  ELSE /\ cache' = cache
                       /\ r.res \in Resources \cup {"validators"} =>
                            view'[r.res].status = "failed"]_vars

(* the request of the blocks page, made past an entry aged the TTL, has
   failed: the table shows the failure and the old entry is still there *)
C19Witness ==
    /\ ev.op = "response"
    /\ ev.arg = "decode_error"
    /\ inflight = <<>>
    /\ view.blocks.status = "failed"
    /\ BlocksUrl(pagination) \in DOMAIN cache
    /\ now - cache[BlocksUrl(pagination)].timestamp >= cacheTimeout

(* C20: when a request of the blocks, transactions, proposals or
   validators fails, the table of that resource shows the failure and no
   other table changes; the other requests in flight stay in flight; the
   sockets, the channel status and the running timer are untouched; and
   init(), once its last loader has settled by a failure, starts the timer *)
C20Theorem ==
    [][ev'.op = "response" /\ ev'.arg # "ok" =>
         \E i \in 1..Len(inflight) :
            LET r == inflight[i]
            IN /\ inflight' = SubSeq(inflight, 1, i - 1)
                               \o SubSeq(inflight, i + 1, Len(inflight))
               /\ r.res \in Resources \cup {"validators"} =>
                    view'[r.res].status = "failed"
               /\ \A x \in DOMAIN view : x # r.res => view'[x] = view[x]
               /\ <<sockets', ws', wsStatus', reconnectTimers', sent'>>
                    = <<sockets, ws, wsStatus, reconnectTimers, sent>>
               /\ \A id \in DOMAIN intervals :
                    id \in DOMAIN intervals' /\ intervals'[id] = intervals[id]
               /\ initPc = "loading" /\ initWait' = {} =>
                    refreshInterval' # 0 /\ refreshInterval' \in DOMAIN intervals'
               /\ initPc' # "new"]_vars

(* every table shows a failure, the socket is open, and a tick has run and
   has started its three loads *)
C20Witness ==
    /\ ev.op = "tick"
    /\ Len(ev.loads) = 3
    /\ \A x \in Resources \cup {"validators"} : view[x].status = "failed"
    /\ wsStatus = "connected"

(* C21: handling a frame that is not JSON, a message of an unknown type or
   a subscribed acknowledgement changes nothing in the cache, the pages,
   the filters, the tables or the channel and starts no load; the socket
   stays open, so its later messages are delivered *)
C21Theorem ==
    [][ev'.op = "message" /\ ev'.arg \in {"malformed", "unknown", "subscribed"} =>
         /\ ev'.loads = <<>>
         /\ <<cache', inflight', view', pagination', filters'>>
              = <<cache, inflight, view, pagination, filters>>
         /\ <<sockets', ws', wsStatus', reconnectTimers', sent'>>
              = <<sockets, ws, wsStatus, reconnectTimers, sent>>
         /\ <<refreshInterval', intervals'>> = <<refreshInterval, intervals>>
         /\ sockets'[ws'] = "open"]_vars

(* a frame that is not JSON was handled while the cache held entries, and
   the socket is open *)
C21Witness ==
    /\ ev.op = "message"
    /\ ev.arg = "malformed"
    /\ BlocksUrl(pagination) \in DOMAIN cache
    /\ StatsUrl \in DOMAIN cache
    /\ sockets[ws] = "open"
    /\ wsStatus = "connected"

(* C22: handling a new_transaction message loads the transactions listing
   once, at its current signature, if the transactions page is 1 and not
   at all otherwise, and loads nothing else: neither the statistics nor
   the blocks, whatever the blocks page *)
C22Theorem ==
    ev.op = "message" /\ ev.arg = "new_transaction" =>
       /\ Cardinality(LoadsOf("txs")) = (IF pagination.txs.page = 1 THEN 1 ELSE 0)
       /\ \A i \in 1..Len(ev.loads) :
             /\ ev.loads[i].res = "txs"
             /\ ev.loads[i].key = TxsUrl(pagination, filters)

(* a new_transaction message was handled on page 1 of the transactions
   while the blocks are on page 2: one load, of the transactions *)
C22Witness ==
    /\ ev.op = "message"
    /\ ev.arg = "new_transaction"
    /\ pagination.txs.page = 1
    /\ pagination.blocks.page = 2
    /\ Len(ev.loads) = 1

(* the values this.filters.txType, txStatus and proposalStatus can take
   with the inputs of the three selects *)
TypeSpace == {OrNull(v) : v \in TypeInputs}

StatusSpace == {OrNull(v) : v \in StatusInputs}

ProposalSpace == {OrNull(v) : v \in ProposalInputs}

(* C23: the blocks signature is the same whatever the page of either
   other resource and the filters; the proposals signature is the same
   whatever the page of either other resource, txType and txStatus; the
   transactions signature is the same whatever the page of either other
   resource and proposalStatus; the handlers of txType and txStatus leave
   the blocks and proposals signatures as they were, and the handler of
   proposalStatus the blocks and transactions signatures *)
C23Theorem ==
    [][/\ \A a \in 1..MaxPage :
            /\ BlocksUrl([pagination' EXCEPT !.txs.page = a]) = BlocksUrl(pagination')
            /\ BlocksUrl([pagination' EXCEPT !.proposals.page = a]) = BlocksUrl(pagination')
            /\ ProposalsUrl([pagination' EXCEPT !.blocks.page = a], filters')
                 = ProposalsUrl(pagination', filters')
            /\ ProposalsUrl([pagination' EXCEPT !.txs.page = a], filters')
                 = ProposalsUrl(pagination', filters')
            /\ TxsUrl([pagination' EXCEPT !.blocks.page = a], filters')
                 = TxsUrl(pagination', filters')
            /\ TxsUrl([pagination' EXCEPT !.proposals.page = a], filters')
                 = TxsUrl(pagination', filters')
       /\ \A t \in TypeSpace, u \in StatusSpace :
            ProposalsUrl(pagination', [filters' EXCEPT !.txType = t, !.txStatus = u])
              = ProposalsUrl(pagination', filters')
       /\ \A q \in ProposalSpace :
            TxsUrl(pagination', [filters' EXCEPT !.proposalStatus = q])
              = TxsUrl(pagination', filters')
       /\ ev'.op \in {"txTypeFilter", "txStatusFilter"} =>
            /\ BlocksUrl(pagination') = BlocksUrl(pagination)
            /\ ProposalsUrl(pagination', filters') = ProposalsUrl(pagination, filters)
       /\ ev'.op = "proposalStatusFilter" =>
            /\ BlocksUrl(pagination') = BlocksUrl(pagination)
            /\ TxsUrl(pagination', filters') = TxsUrl(pagination, filters)]_vars

(* the status filter of the transactions was set while the proposals are
   filtered and on their page 2 *)
C23Witness ==
    /\ ev.op = "txStatusFilter"
    /\ filters.txStatus = "success"
    /\ filters.proposalStatus = "passed"
    /\ pagination.proposals.page = 2
    /\ pagination.blocks.page = 2

(* the inputs of the request of a resource: page, limit and its filters *)
InputsOf(res, pg, flt) ==
    CASE res = "blocks" -> <<pg.blocks.page, pg.blocks.limit, Null, Null>>
      [] res = "txs" -> <<pg.txs.page, pg.txs.limit, OrNull(flt.txType), OrNull(flt.txStatus)>>
      [] res = "proposals" ->
           <<pg.proposals.page, pg.proposals.limit, OrNull(flt.proposalStatus), Null>>

(* a second value of each select, and a second page size *)
TypeValues == TypeSpace \cup {"delegate"}

StatusValues == StatusSpace \cup {"failed"}

ProposalValues == ProposalSpace \cup {"rejected"}

LimitValues == {limit, 2 * limit}

Paged(a, l) == [r \in Resources |-> [page |-> a, limit |-> l]]

(* C24: the URL string of the request a resource makes now equals the URL
   string of a request of that resource with any page, page size and
   filter values exactly when the page, the page size and the filter
   values are the same, a filter that is absent differing from one that is
   set; it differs from the URL string of every other resource; and every
   cache entry, and every cache hit, holds a payload fetched with its own
   signature *)
C24Theorem ==
    /\ \A r \in Resources :
          LET url == Text(UrlOf(r, pagination, filters))
              inputs == InputsOf(r, pagination, filters)
              others == CASE r = "blocks" -> {filters}
                          [] r = "txs" ->
                               {[filters EXCEPT !.txType = t, !.txStatus = u] :
                                  t \in TypeValues, u \in StatusValues}
                          [] r = "proposals" ->
                               {[filters EXCEPT !.proposalStatus = q] :
                                  q \in ProposalValues}
          IN /\ \A a \in 1..MaxPage, l \in LimitValues, f \in others :
                   url = Text(UrlOf(r, Paged(a, l), f))
                     <=> inputs = InputsOf(r, Paged(a, l), f)
             /\ \A r2 \in Resources \ {r} : url # Text(UrlOf(r2, pagination, filters))
    /\ \A k \in DOMAIN cache : cache[k].data.sig = k
    /\ \A i \in 1..Len(ev.loads) : ev.loads[i].hit => ev.loads[i].data.sig = ev.loads[i].key

(* back on page 1 of the blocks, which is served from the cache, and on
   page 1 of the transactions, which had to be requested again because
   both filters were set since it was stored *)
C24Witness ==
    /\ ev.op = "prevBlocksPage"
    /\ Len(ev.loads) = 1
    /\ ev.loads[1].hit
    /\ pagination.txs.page = 1
    /\ view.txs.status = "failed"
    /\ filters.txType = "send"
    /\ filters.txStatus = "success"
    /\ TxsUrl(pagination, [filters EXCEPT !.txType = Null, !.txStatus = Null])
         \in DOMAIN cache

(* C25: once init() has run, whenever the channel is not Connected a
   connection attempt is under way or the timer of the next one is
   pending; otherwise no attempt is ever made again *)
C25Claim ==
    initPc # "new" /\ wsStatus # "connected" =>
       \/ \E s \in 1..Len(sockets) : sockets[s] = "connecting"
       \/ reconnectTimers # <<>>

(* the fetchAPI calls of the last task that went to the server *)
Misses(e) == {i \in 1..Len(e.loads) : ~e.loads[i].hit}

(* C26: a fetchAPI call that finds no valid cache entry issues a request of
   its own, also when requests for the same signature are pending, and
   every successful response writes its own payload to the cache *)
C26Theorem ==
    [][/\ ev'.op \notin {"response", "advance"} =>
             /\ \A i \in 1..Len(ev'.loads) :
                   ev'.loads[i].hit <=> FetchHit(cache, ev'.loads[i].key, now)
             /\ Len(inflight') = Len(inflight) + Cardinality(Misses(ev'))
             /\ SubSeq(inflight', 1, Len(inflight)) = inflight
             /\ \A i \in Misses(ev') :
                   \E j \in (Len(inflight) + 1)..Len(inflight') :
                      /\ inflight'[j].key = ev'.loads[i].key
                      /\ inflight'[j].issuedAt = now
       /\ ev'.op = "response" /\ ev'.arg = "ok" =>
             \E i \in 1..Len(inflight) :
                /\ inflight' = SubSeq(inflight, 1, i - 1)
                                 \o SubSeq(inflight, i + 1, Len(inflight))
                /\ cache'[inflight[i].key].data.asOf = inflight[i].issuedAt
                /\ cache'[inflight[i].key].timestamp = now]_vars

(* a second request for a signature is started while the first is pending *)
C26Witness ==
    \E i, j \in 1..Len(inflight) :
       /\ i < j
       /\ inflight[i].key = inflight[j].key
       /\ inflight[i].issuedAt < inflight[j].issuedAt
       /\ inflight[j].issuedAt = now
       /\ \E l \in Misses(ev) : ev.loads[l].key = inflight[j].key

(* C27: every successful response to a listing request is written to the
   cache under its signature and rendered, whatever the table shows, so
   the cache entry and the table both hold the payload of the response
   that completed last, also when its request was issued first *)
C27Theorem ==
    [][ev'.op = "response" /\ ev'.arg = "ok" =>
          \A i \in 1..Len(inflight) :
             /\ inflight' = SubSeq(inflight, 1, i - 1)
                              \o SubSeq(inflight, i + 1, Len(inflight))
             /\ inflight[i].res \in Resources
             => LET r == inflight[i]
                    payload == [sig |-> r.key, asOf |-> r.issuedAt]
                IN /\ view'[r.res] = [status |-> "ok", page |-> r.page, data |-> payload]
                   /\ cache'[r.key] = [data |-> payload, timestamp |-> now]]_vars

(* the response to a push-triggered load arrives after the response to the
   poll-triggered load that was started later, and replaces it *)
C27Witness ==
    /\ <<"blocks", "tick", "push">> \in overtaken.pairs
    /\ overtaken.lead.res = "blocks"
    /\ overtaken.lead.origin = "tick"
    /\ ev.op = "response"
    /\ view.blocks.status = "ok"
    /\ view.blocks.data.sig = overtaken.lead.key
    /\ view.blocks.data.asOf < overtaken.lead.asOf
    /\ cache[overtaken.lead.key].data = view.blocks.data
    /\ \A i \in 1..Len(inflight) : inflight[i].res # "blocks"

(* the requests for signature k among q *)
Pending(q, k) == {i \in 1..Len(q) : q[i].key = k}

(* C28: a timer that is due can fire whatever is pending; the callback
   schedules the next firing one period later and, on page one of the
   blocks, starts a blocks load of its own, which adds a request to those
   pending for the signature unless the cache answers it *)
C28Theorem ==
    [][/\ \A id \in DOMAIN intervals :
             now >= intervals[id] /\ Len(inflight) + 3 <= MaxInFlight
                => ENABLED tick(id)
       /\ ev'.op = "tick" =>
             /\ \E id \in DOMAIN intervals :
                   /\ now >= intervals[id]
                   /\ intervals' = [intervals EXCEPT ![id] = now + refreshPeriod]
             /\ pagination.blocks.page = 1 =>
                   /\ \E l \in 1..Len(ev'.loads) :
                         /\ ev'.loads[l].res = "blocks"
                         /\ ev'.loads[l].key = BlocksUrl(pagination)
                   /\ ~FetchHit(cache, BlocksUrl(pagination), now) =>
                         Cardinality(Pending(inflight', BlocksUrl(pagination)))
                           = Cardinality(Pending(inflight, BlocksUrl(pagination))) + 1]_vars

(* the request of the tick before is still pending when a tick adds its own *)
C28Witness ==
    /\ ev.op = "tick"
    /\ \E i, j \in Pending(inflight, BlocksUrl(pagination)) :
          /\ inflight[i].origin = "tick"
          /\ inflight[j].origin = "tick"
          /\ inflight[j].issuedAt = inflight[i].issuedAt + refreshPeriod
          /\ inflight[j].issuedAt = now

(* C29: while the auto-refresh flag is false, refreshInterval is null and
   no interval timer of the page is running *)
C29Claim ==
    ~autoRefresh => refreshInterval = 0 /\ intervals = <<>>

(* C30: once no blocks request is pending, a blocks table that shows data
   shows the page that pagination holds, under that page's number *)
C30Claim ==
    (\A i \in 1..Len(inflight) : inflight[i].res # "blocks") /\ view.blocks.status = "ok"
       => /\ view.blocks.page = pagination.blocks.page
          /\ view.blocks.data.sig = BlocksUrl(pagination)

(* the sockets of the client that are connecting or open *)
Live == {s \in 1..Len(sockets) : sockets[s] \in {"connecting", "open"}}

(* C31: the live sockets and the pending reconnection timers number one at
   most, a live socket is this.ws, and a reconnection attempt starts only
   when every socket the client created is closed *)
C31Theorem ==
    [][/\ Cardinality(Live') + Len(reconnectTimers') <= 1
       /\ Live' \subseteq {ws'}
       /\ ev'.op = "reconnect" =>
             /\ Live = {}
             /\ Len(reconnectTimers) = 1
             /\ reconnectTimers' = <<>>]_vars

(* a second socket is open after the first one was closed and replaced *)
C31Witness ==
    /\ Len(sockets) >= 2
    /\ ws = Len(sockets)
    /\ sockets[ws] = "open"
    /\ \A s \in 1..(ws - 1) : sockets[s] = "closed"
    /\ reconnectTimers = <<>>
    /\ wsStatus = "connected"

(* the requests of loadInitialData() that are not answered yet *)
InitPending(q) == {i \in 1..Len(q) : q[i].origin = "init"}

(* C32: while init() awaits loadInitialData() no poll timer exists; init()
   passes the await with the response that settles the last initial
   loader, whatever the outcomes were, and then starts the timer *)
C32Theorem ==
    [][/\ initPc' = "loading" =>
             /\ refreshInterval' = 0
             /\ intervals' = <<>>
             /\ InitPending(inflight') # {}
       /\ initPc' # "new" /\ InitPending(inflight') = {} =>
             /\ initPc' = "done"
             /\ refreshInterval' # 0
             /\ DOMAIN intervals' = {refreshInterval'}
       /\ initPc = "loading" /\ initPc' = "done" =>
             /\ ev'.op = "response"
             /\ initWait' = {}
             /\ intervals'[refreshInterval'] = now + refreshPeriod]_vars

(* every initial load has failed and the poll timer runs *)
C32Witness ==
    /\ initPc = "done"
    /\ InitPending(inflight) = {}
    /\ cache = <<>>
    /\ \A t \in {"blocks", "txs", "proposals", "validators"} : view[t].status = "failed"
    /\ refreshInterval # 0
    /\ refreshInterval \in DOMAIN intervals

(* the ticks of effect e that await the callback, and its pending timeouts *)
Ticking(p, e) ==
    Cardinality({i \in 1..Len(p.awaiting) : p.awaiting[i] = e})
      + Cardinality({i \in 1..Len(p.timeouts) : p.timeouts[i].effect = e})

(* C33: an effect of usePolling invokes the callback when it is mounted;
   it never has two invocations in progress or an invocation and a timeout
   at once; and when the callback settles, resolved or rejected, the
   effect that is not cancelled schedules the next tick one interval later *)
C33Theorem ==
    [][/\ \A e \in 1..Len(polling'.isCancelled) : Ticking(polling', e) <= 1
       /\ polling' # polling =>
             LET e == polling'.last.effect
             IN /\ polling'.last.op = "mount" =>
                      /\ Len(polling'.isCancelled) = Len(polling.isCancelled) + 1
                      /\ polling'.awaiting = Append(polling.awaiting, e)
                      /\ polling'.invoked[e] = 1
                /\ polling'.last.op = "tick" =>
                      /\ polling'.invoked[e] = polling.invoked[e] + 1
                      /\ \E i \in 1..Len(polling.timeouts) :
                            /\ polling.timeouts[i].effect = e
                            /\ now >= polling.timeouts[i].due
                /\ polling'.last.op = "settle" /\ ~polling.isCancelled[e] =>
                      polling'.timeouts =
                         Append(polling.timeouts,
                                [effect |-> e, due |-> now + polling.interval[e]])]_vars

(* the callback has thrown and the effect has scheduled its next tick *)
C33Witness ==
    /\ polling.last.op = "settle"
    /\ polling.last.outcome = "network_error"
    /\ ~polling.isCancelled[polling.last.effect]
    /\ polling.invoked[polling.last.effect] >= 2
    /\ \E i \in 1..Len(polling.timeouts) :
          /\ polling.timeouts[i].effect = polling.last.effect
          /\ polling.timeouts[i].due = now + polling.interval[polling.last.effect]

(* C34: the callback is not invoked by an effect whose cleanup has run *)
C34Claim ==
    polling.last.op = "tick" => ~polling.isCancelled[polling.last.effect]

Blank == {Text(v) : v \in {x \in QueryInputs \cup BoxInputs : trim(x) = <<>>}}

(* C36: a search with an empty or blank query starts no request and leaves
   the cache and the page as they are, in AuraExplorer.search and in
   App.onSearch, which also clears the result and the error *)
C36Theorem ==
    [][/\ appVars' = appVars /\ ev'.op = "search" /\ ev'.arg \in Blank =>
             /\ ev'.loads = <<>>
             /\ inflight' = inflight
             /\ cache' = cache
             /\ view' = view
       /\ explorerVars' = explorerVars /\ evApp'.op = "onSearch" /\ evApp'.query = <<>> =>
             /\ lookups' = lookups
             /\ evApp'.url = <<>>
             /\ searchResult' = NoResult
             /\ searchError' = Null]_vars

(* a blank search in either box, each while an earlier search of that box
   has left its trace: a cached answer, a pending lookup *)
C36Witness ==
    /\ ev.op = "search"
    /\ ev.arg = " "
    /\ inflight = <<>>
    /\ \E k \in DOMAIN cache : k[1] = "/api/search"
    /\ evApp.op = "onSearch"
    /\ evApp.query = <<>>
    /\ lookups # <<>>
    /\ searchResult = NoResult
    /\ searchError = Null

(* the filters of a resource *)
FiltersOf == [blocks |-> {}, txs |-> {"txType", "txStatus"},
              proposals |-> {"proposalStatus"}]

(* the resource an operation of the page works on *)
ResourceOf(op) ==
    CASE op \in {"prevBlocksPage", "nextBlocksPage"} -> "blocks"
      [] op \in {"prevTxsPage", "nextTxsPage", "txTypeFilter", "txStatusFilter"} -> "txs"
      [] op \in {"prevProposalsPage", "nextProposalsPage", "proposalStatusFilter"}
            -> "proposals"
      [] OTHER -> "none"

(* C37: a paging or filter operation on one resource leaves the page and
   limit of the other two resources and their filters as they were, and
   loads no other resource; paging changes no limit *)
C37Theorem ==
    [][ResourceOf(ev'.op) \in Resources =>
          LET res == ResourceOf(ev'.op)
          IN /\ \A r \in Resources \ {res} :
                   /\ pagination'[r] = pagination[r]
                   /\ \A f \in FiltersOf[r] : filters'[f] = filters[f]
             /\ pagination'[res].limit = pagination[res].limit
             /\ \A i \in 1..Len(ev'.loads) : ev'.loads[i].res = res]_vars

(* the proposal filter is set while the blocks and the transactions are on
   later pages and the transactions are filtered *)
C37Witness ==
    /\ ev.op = "proposalStatusFilter"
    /\ filters.proposalStatus = "passed"
    /\ pagination.proposals.page = 1
    /\ pagination.blocks.page = 3
    /\ pagination.txs.page = 2
    /\ filters.txType = "send"

(* x with the case of every second character changed *)
Mixed(x) ==
    [i \in 1..Len(x) |-> IF i % 2 = 0 THEN toUpperCase(<<x[i]>>)[1]
                                      ELSE toLowerCase(<<x[i]>>)[1]]

(* the spellings of x: other letter case, and the prefix absent, 0x or 0X *)
Spellings(x) ==
    LET cased == {x, toUpperCase(x), toLowerCase(x), Mixed(x)}
    IN UNION {{HashPart(y), <<"0", "x">> \o HashPart(y), <<"0", "X">> \o HashPart(y)} :
                y \in cased}

(* C38: for the query of every search, normalizeHash returns null exactly
   when the part after the optional prefix is not 64 hexadecimal
   characters; a hash it returns is 0x and the digits in upper case, it
   maps that hash to itself, and it maps every other spelling of the query
   to the same hash; the lookup of onSearch asks for that hash *)
C38Theorem ==
    /\ \A x \in {evApp.query} :
          LET h == normalizeHash(x)
          IN /\ h = <<>> <=> ~IsHex64(HashPart(x))
             /\ h # <<>> =>
                   /\ h = <<"0", "x">> \o toUpperCase(HashPart(x))
                   /\ normalizeHash(h) = h
                   /\ \A y \in Spellings(x) : normalizeHash(y) = h
             /\ h = <<>> => \A y \in Spellings(x) : normalizeHash(y) = <<>>
    /\ \A i \in 1..Len(lookups) :
          lookups[i].kind = "tx" =>
             /\ lookups[i].url = <<"/rpc/tx", "?hash=">> \o normalizeHash(lookups[i].query)
             /\ normalizeHash(SubSeq(lookups[i].url, 3, Len(lookups[i].url)))
                  = SubSeq(lookups[i].url, 3, Len(lookups[i].url))

(* two pending lookups whose queries spell one hash differently *)
C38Witness ==
    /\ Len(lookups) = 2
    /\ lookups[1].query = Hex("a")
    /\ lookups[2].query = <<"0", "x">> \o Hex("A")
    /\ lookups[1].url = lookups[2].url
    /\ evApp.op = "onSearch"
    /\ evApp.kind = "tx"

(* C39: with the latest height of the overview, 1 or more, fetchRecentBlocks
   asks for exactly `count` blocks, those of the heights
   max(latestHeight - i, 1) for i = 0..count-1: each is 1 or more, they
   never increase, and when latestHeight < count the height 1 is asked for
   more than once; refreshOverview asks for recentCount of them *)
C39Theorem ==
    /\ \A latestHeight \in ChainHeights \ {0}, count \in 0..MaxCount :
          LET heights == fetchRecentBlocks(count, latestHeight, 0)
          IN /\ Len(heights) = count
             /\ \A i \in 0..(count - 1) :
                   /\ heights[i + 1] = Max(latestHeight - i, 1)
                   /\ heights[i + 1] >= 1
             /\ \A i \in 1..(count - 1) : heights[i + 1] <= heights[i]
             /\ latestHeight < count =>
                   Cardinality({i \in 1..count : heights[i] = 1}) >= 2
             /\ latestHeight >= count =>
                   Cardinality({heights[i] : i \in 1..count}) = count
    /\ polling.last.op = "settle" /\ polling.last.outcome = "ok" /\ polling.overview >= 1 =>
          /\ polling.heights = fetchRecentBlocks(recentCount, polling.overview, 0)
          /\ Len(polling.heights) = recentCount
          /\ \A i \in 1..recentCount : polling.heights[i] >= 1

(* the node is at a height below recentCount and the App has asked for the
   block of height 1 several times *)
C39Witness ==
    /\ polling.last.op = "settle"
    /\ polling.last.outcome = "ok"
    /\ polling.overview = recentCount - 2
    /\ Len(polling.heights) = recentCount
    /\ polling.heights[1] = polling.overview
    /\ Cardinality({i \in 1..Len(polling.heights) : polling.heights[i] = 1}) = 3

====
